---- MODULE Spec2Model ----
(***************************************************************************)
(* Query parser and selection resolver of the Bible reference search.      *)
(* A query is a sequence of one-character strings.  The regular            *)
(* expressions of book.rs and params.rs are modelled by what they match    *)
(* and capture (leftmost-first, greedy), the canon tables as functions,    *)
(* and search() as a state machine with one action per handler.            *)
(***************************************************************************)
EXTENDS Integers, Sequences, FiniteSets, TLC

\* Option<T>
None == [tag |-> "None"]
Some(x) == [tag |-> "Some", v |-> x]
IsSome(o) == o.tag = "Some"

\* a panic of the thread that runs the search
Panic == [tag |-> "Panic"]

Min(a, b) == IF a <= b THEN a ELSE b

\* ------------------------------------------------------------------------
\* Characters and string primitives (std::str, regex character classes)
\* ------------------------------------------------------------------------

Digits == <<"0", "1", "2", "3", "4", "5", "6", "7", "8", "9">>

\* \d
IsDigit(c) == \E i \in 1..10 : Digits[i] = c

DigitVal(c) == (CHOOSE i \in 1..10 : Digits[i] = c) - 1

\* \s , char::is_whitespace
IsSpace(c) == c \in {" ", "\t", "\n"}

\* no case folding
CaseSensitive(c) == c

\* (?i): simple case folding of the ASCII letters
Lower(c) ==
  CASE c = "A" -> "a" [] c = "B" -> "b" [] c = "C" -> "c" [] c = "D" -> "d"
    [] c = "E" -> "e" [] c = "F" -> "f" [] c = "G" -> "g" [] c = "H" -> "h"
    [] c = "I" -> "i" [] c = "J" -> "j" [] c = "K" -> "k" [] c = "L" -> "l"
    [] c = "M" -> "m" [] c = "N" -> "n" [] c = "O" -> "o" [] c = "P" -> "p"
    [] c = "Q" -> "q" [] c = "R" -> "r" [] c = "S" -> "s" [] c = "T" -> "t"
    [] c = "U" -> "u" [] c = "V" -> "v" [] c = "W" -> "w" [] c = "X" -> "x"
    [] c = "Y" -> "y" [] c = "Z" -> "z" [] OTHER -> c

\* s[a..b), 1-based, empty when a >= b
Slice(s, a, b) == SubSeq(s, a, b - 1)

\* length of the run of whitespace characters of s starting at index p
RECURSIVE SpaceRun(_, _)
SpaceRun(s, p) ==
  IF p <= Len(s) /\ IsSpace(s[p]) THEN 1 + SpaceRun(s, p + 1) ELSE 0

\* length of the run of digits of s starting at index p
RECURSIVE DigitRun(_, _)
DigitRun(s, p) ==
  IF p <= Len(s) /\ IsDigit(s[p]) THEN 1 + DigitRun(s, p + 1) ELSE 0

\* length of the run of non-digits (\D) of s starting at index p
RECURSIVE NonDigitRun(_, _)
NonDigitRun(s, p) ==
  IF p <= Len(s) /\ ~IsDigit(s[p]) THEN 1 + NonDigitRun(s, p + 1) ELSE 0

\* str::trim
RECURSIVE TrimEndLen(_)
TrimEndLen(s) ==
  IF Len(s) > 0 /\ IsSpace(s[Len(s)]) THEN TrimEndLen(SubSeq(s, 1, Len(s) - 1))
  ELSE Len(s)

Trim(s) ==
  LET e == TrimEndLen(s)
      b == Min(SpaceRun(s, 1), e)
  IN  SubSeq(s, b + 1, e)

\* s has the literal lit at index p, compared case-insensitively
\* (lit is given in lower case)
HasLitAt(s, p, lit) ==
  /\ p + Len(lit) - 1 <= Len(s)
  /\ \A i \in 1..Len(lit) : Lower(s[p + i - 1]) = lit[i]

\* s has exactly the text pat at index p
HasAt(s, p, pat) ==
  /\ p + Len(pat) - 1 <= Len(s)
  /\ \A i \in 1..Len(pat) : s[p + i - 1] = pat[i]

\* str::replace(pat, ""): every non-overlapping occurrence of pat, scanned
\* from the left, is removed (pat is never empty here)
RECURSIVE RemoveAll(_, _, _)
RemoveAll(s, pat, p) ==
  IF p > Len(s) THEN <<>>
  ELSE IF HasAt(s, p, pat) THEN RemoveAll(s, pat, p + Len(pat))
  ELSE <<s[p]>> \o RemoveAll(s, pat, p + 1)

\* str::split(','): the pieces between the commas, in order
RECURSIVE SplitComma(_, _)
SplitComma(s, acc) ==
  IF s = <<>> THEN <<acc>>
  ELSE IF Head(s) = "," THEN <<acc>> \o SplitComma(Tail(s), <<>>)
  ELSE SplitComma(Tail(s), Append(acc, Head(s)))

\* value of a run of decimal digits
RECURSIVE DecVal(_)
DecVal(ds) ==
  IF ds = <<>> THEN 0
  ELSE 10 * DecVal(SubSeq(ds, 1, Len(ds) - 1)) + DigitVal(ds[Len(ds)])

U8Max == 255

\* str::parse::<u8>(): an optional '+', then one or more digits, value <= 255
parse_u8(s) ==
  LET body == IF Len(s) > 0 /\ s[1] = "+" THEN Tail(s) ELSE s
  IN  IF /\ Len(body) > 0
         /\ DigitRun(body, 1) = Len(body)
         /\ DecVal(body) <= U8Max
      THEN Some(DecVal(body))
      ELSE None

\* ------------------------------------------------------------------------
\* book.rs: the book recognizer
\* ------------------------------------------------------------------------

\* The alternatives of an ordinal pattern in the order the regex tries
\* them (alternation left to right, optional groups greedy, so the longer
\* spelling of a nested-optional alternative comes first).  ws marks the
\* alternatives that end in \s+ .

\* (?i)one|fst|first|1(st)?|i\s+
ONES == <<
  [lit |-> <<"o", "n", "e">>, ws |-> FALSE],
  [lit |-> <<"f", "s", "t">>, ws |-> FALSE],
  [lit |-> <<"f", "i", "r", "s", "t">>, ws |-> FALSE],
  [lit |-> <<"1", "s", "t">>, ws |-> FALSE],
  [lit |-> <<"1">>, ws |-> FALSE],
  [lit |-> <<"i">>, ws |-> TRUE] >>

\* (?i)two|sec(o(n(d)?)?)?|2(nd)?|ii\s+
TWOS == <<
  [lit |-> <<"t", "w", "o">>, ws |-> FALSE],
  [lit |-> <<"s", "e", "c", "o", "n", "d">>, ws |-> FALSE],
  [lit |-> <<"s", "e", "c", "o", "n">>, ws |-> FALSE],
  [lit |-> <<"s", "e", "c", "o">>, ws |-> FALSE],
  [lit |-> <<"s", "e", "c">>, ws |-> FALSE],
  [lit |-> <<"2", "n", "d">>, ws |-> FALSE],
  [lit |-> <<"2">>, ws |-> FALSE],
  [lit |-> <<"i", "i">>, ws |-> TRUE] >>

\* (?i)thr(e(e)?)?|thi(r(d)?)?|3(rd)?|iii\s+
THREES == <<
  [lit |-> <<"t", "h", "r", "e", "e">>, ws |-> FALSE],
  [lit |-> <<"t", "h", "r", "e">>, ws |-> FALSE],
  [lit |-> <<"t", "h", "r">>, ws |-> FALSE],
  [lit |-> <<"t", "h", "i", "r", "d">>, ws |-> FALSE],
  [lit |-> <<"t", "h", "i", "r">>, ws |-> FALSE],
  [lit |-> <<"t", "h", "i">>, ws |-> FALSE],
  [lit |-> <<"3", "r", "d">>, ws |-> FALSE],
  [lit |-> <<"3">>, ws |-> FALSE],
  [lit |-> <<"i", "i", "i">>, ws |-> TRUE] >>

\* concatenation of a sequence of sequences
RECURSIVE Concat(_)
Concat(ss) == IF ss = <<>> THEN <<>> ELSE Head(ss) \o Concat(Tail(ss))

\* greedy \s* at p: the positions it can end at, longest run first
StarEnds(s, p) ==
  LET n == SpaceRun(s, p) IN [i \in 1..(n + 1) |-> p + n - (i - 1)]

\* greedy \s+ at p: as \s* but at least one character
PlusEnds(s, p) ==
  LET n == SpaceRun(s, p) IN [i \in 1..n |-> p + n - (i - 1)]

\* the positions at which one alternative can end when tried at p,
\* in backtracking order
FormEnds(form, s, p) ==
  IF ~HasLitAt(s, p, form.lit) THEN <<>>
  ELSE IF form.ws THEN PlusEnds(s, p + Len(form.lit))
  ELSE <<p + Len(form.lit)>>

\* the positions at which an ordinal pattern can end when tried at p,
\* in backtracking order
NumEnds(forms, s, p) ==
  Concat([i \in 1..Len(forms) |-> FormEnds(forms[i], s, p)])

\* Regex::is_match of an (unanchored) ordinal pattern
IsMatchNum(forms, s) ==
  \E p \in 1..Len(s) : NumEnds(forms, s, p) # <<>>

\* \D+ needs one non-digit character at t
TextStartsAt(s, t) == t <= Len(s) /\ ~IsDigit(s[t])

\* Every way  \s*(?<book_num>ONES|TWOS|THREES)?\s*  can be matched from p,
\* in the order the backtracking matcher tries them: leading \s* greedy,
\* then the ordinal alternatives before the empty option of '?', then the
\* second \s* greedy.  has_num tells whether the group took part.
BookRegexTries(s, p) ==
  LET lead == StarEnds(s, p)
      nums(a) ==
        LET e == NumEnds(ONES \o TWOS \o THREES, s, a)
        IN  [i \in 1..Len(e) |-> [has_num |-> TRUE, num_start |-> a, num_end |-> e[i]]]
            \o <<[has_num |-> FALSE, num_start |-> a, num_end |-> a]>>
      texts(n) ==
        LET t == StarEnds(s, n.num_end)
        IN  [i \in 1..Len(t) |->
              [has_num |-> n.has_num, num_start |-> n.num_start,
               num_end |-> n.num_end, text_start |-> t[i]]]
  IN  Concat([i \in 1..Len(lead) |->
        Concat([j \in 1..Len(nums(lead[i])) |-> texts(nums(lead[i])[j])])])

\* the first try after which \D+ finds a character, or None
FirstTry(s, tries) ==
  LET ok == {i \in 1..Len(tries) : TextStartsAt(s, tries[i].text_start)}
  IN  IF ok = {} THEN None
      ELSE Some(tries[CHOOSE i \in ok : \A j \in ok : i <= j])

\* the capture groups of the match that starts at p and goes on as t: \D+
\* takes the whole run of non-digits (whitespace included), which leaves
\* nothing to the final \s*
TryCaptures(s, p, t) ==
  IF ~IsSome(t) THEN None
  ELSE LET e == t.v.text_start + NonDigitRun(s, t.v.text_start)
       IN  Some([all |-> Slice(s, p, e),
                 book_num |-> IF t.v.has_num
                              THEN Some(Slice(s, t.v.num_start, t.v.num_end))
                              ELSE None,
                 book_text |-> Slice(s, t.v.text_start, e)])

\* The match of get_book_regex() that starts at p, or None:
\*   \s*(?<book_num>ONES|TWOS|THREES)?\s*(?i)(?<book_text>\D+)\s*
BookRegexAt(s, p) == TryCaptures(s, p, FirstTry(s, BookRegexTries(s, p)))

\* the first of two Options that is Some
OrElse(o, other) == IF IsSome(o) THEN o ELSE other

\* Regex::captures: the match at the leftmost position p or later that has
\* one
RECURSIVE CapturesFrom(_, _)
CapturesFrom(query, p) ==
  IF p > Len(query) THEN None
  ELSE OrElse(BookRegexAt(query, p), CapturesFrom(query, p + 1))

get_book_regex(query) == CapturesFrom(query, 1)

\* get_book_num_string, but TWOS is tried before THREES
get_book_num_string_twos_first(book_num) ==
  IF IsMatchNum(TWOS, book_num) THEN Some(<<"2", " ">>)
  ELSE IF IsMatchNum(THREES, book_num) THEN Some(<<"3", " ">>)
  ELSE IF IsMatchNum(ONES, book_num) THEN Some(<<"1", " ">>)
  ELSE Panic

\* get_book_num_string, but the patterns are tried from ONES to THREES
get_book_num_string_ones_first(book_num) ==
  IF IsMatchNum(ONES, book_num) THEN Some(<<"1", " ">>)
  ELSE IF IsMatchNum(TWOS, book_num) THEN Some(<<"2", " ">>)
  ELSE IF IsMatchNum(THREES, book_num) THEN Some(<<"3", " ">>)
  ELSE Panic

\* Some(digit and space), or Panic when no ordinal pattern matches
get_book_num_string(book_num) ==
  IF IsMatchNum(THREES, book_num) THEN Some(<<"3", " ">>)
  ELSE IF IsMatchNum(TWOS, book_num) THEN Some(<<"2", " ">>)
  ELSE IF IsMatchNum(ONES, book_num) THEN Some(<<"1", " ">>)
  ELSE Panic

format_title(book_num, book_text) ==
  LET trimmed == Trim(book_text)
  IN  IF trimmed = <<>> THEN None ELSE Some(book_num \o trimmed)

get_title_from_captures(captures) ==
  LET book_num == IF IsSome(captures.book_num)
                  THEN get_book_num_string(captures.book_num.v)
                  ELSE Some(<<>>)
  IN  IF book_num = Panic THEN Panic
      ELSE format_title(book_num.v, captures.book_text)

\* [\d|:|-|_|\s] : a digit, '|', ':', the range '|'-'|', '_', whitespace
NON_NAME_CHARS(c) == IsDigit(c) \/ IsSpace(c) \/ c \in {"|", ":", "_"}

\* one element of a title pattern against one (case-folded) character
ElemMatches(elem, c) ==
  IF elem = "[e|u]" THEN c \in {"e", "|", "u"} ELSE c = elem

\* ElemStep, but an element of a pattern can be left out
ElemStep_skipping(elem, s, P) ==
  IF elem = "\\s*" THEN UNION {{p + j : j \in 0..SpaceRun(s, p)} : p \in P}
  ELSE P \cup {p + 1 : p \in {q \in P : q <= Len(s) /\ ElemMatches(elem, Lower(s[q]))}}

\* positions reached from the positions P by one element of a pattern
ElemStep(elem, s, P) ==
  IF elem = "\\s*" THEN UNION {{p + j : j \in 0..SpaceRun(s, p)} : p \in P}
  ELSE {p + 1 : p \in {q \in P : q <= Len(s) /\ ElemMatches(elem, Lower(s[q]))}}

book_matcher == <<
  [key |-> <<"1", " ", "C", "h", "r", "o", "n", "i", "c", "l", "e", "s">>,
   num |-> ONES, min |-> 2,
   name |-> <<"c", "h", "r", "o", "n", "i", "c", "l", "e", "s">>],
  [key |-> <<"1", " ", "C", "o", "r", "i", "n", "t", "h", "i", "a", "n", "s">>,
   num |-> ONES, min |-> 2,
   name |-> <<"c", "o", "r", "i", "n", "t", "h", "i", "a", "n", "s">>],
  [key |-> <<"1", " ", "J", "o", "h", "n">>,
   num |-> ONES, min |-> 1,
   name |-> <<"j", "o", "h", "n">>],
  [key |-> <<"1", " ", "K", "i", "n", "g", "s">>,
   num |-> ONES, min |-> 1,
   name |-> <<"k", "i", "n", "g", "s">>],
  [key |-> <<"1", " ", "P", "e", "t", "e", "r">>,
   num |-> ONES, min |-> 1,
   name |-> <<"p", "e", "t", "e", "r">>],
  [key |-> <<"1", " ", "S", "a", "m", "u", "e", "l">>,
   num |-> ONES, min |-> 3,
   name |-> <<"s", "a", "m", "u", "e", "l">>],
  [key |-> <<"1", " ", "T", "h", "e", "s", "s", "a", "l", "o", "n", "i", "a", "n", "s">>,
   num |-> ONES, min |-> 2,
   name |-> <<"t", "h", "e", "s", "s", "a", "l", "o", "n", "i", "a", "n", "s">>],
  [key |-> <<"1", " ", "T", "i", "m", "o", "t", "h", "y">>,
   num |-> ONES, min |-> 2,
   name |-> <<"t", "i", "m", "o", "t", "h", "y">>],
  [key |-> <<"2", " ", "C", "h", "r", "o", "n", "i", "c", "l", "e", "s">>,
   num |-> TWOS, min |-> 2,
   name |-> <<"c", "h", "r", "o", "n", "i", "c", "l", "e", "s">>],
  [key |-> <<"2", " ", "C", "o", "r", "i", "n", "t", "h", "i", "a", "n", "s">>,
   num |-> TWOS, min |-> 2,
   name |-> <<"c", "o", "r", "i", "n", "t", "h", "i", "a", "n", "s">>],
  [key |-> <<"2", " ", "J", "o", "h", "n">>,
   num |-> TWOS, min |-> 1,
   name |-> <<"j", "o", "h", "n">>],
  [key |-> <<"2", " ", "K", "i", "n", "g", "s">>,
   num |-> TWOS, min |-> 1,
   name |-> <<"k", "i", "n", "g", "s">>],
  [key |-> <<"2", " ", "P", "e", "t", "e", "r">>,
   num |-> TWOS, min |-> 1,
   name |-> <<"p", "e", "t", "e", "r">>],
  [key |-> <<"2", " ", "S", "a", "m", "u", "e", "l">>,
   num |-> TWOS, min |-> 1,
   name |-> <<"s", "a", "m", "u", "e", "l">>],
  [key |-> <<"2", " ", "T", "h", "e", "s", "s", "a", "l", "o", "n", "i", "a", "n", "s">>,
   num |-> TWOS, min |-> 2,
   name |-> <<"t", "h", "e", "s", "s", "a", "l", "o", "n", "i", "a", "n", "s">>],
  [key |-> <<"2", " ", "T", "i", "m", "o", "t", "h", "y">>,
   num |-> TWOS, min |-> 2,
   name |-> <<"t", "i", "m", "o", "t", "h", "y">>],
  [key |-> <<"3", " ", "J", "o", "h", "n">>,
   num |-> THREES, min |-> 2,
   name |-> <<"j", "o", "h", "n">>],
  [key |-> <<"A", "c", "t", "s">>,
   num |-> <<>>, min |-> 2,
   name |-> <<"a", "c", "t", "s">>],
  [key |-> <<"A", "m", "o", "s">>,
   num |-> <<>>, min |-> 2,
   name |-> <<"a", "m", "o", "s">>],
  [key |-> <<"C", "o", "l", "o", "s", "s", "i", "a", "n", "s">>,
   num |-> <<>>, min |-> 2,
   name |-> <<"c", "o", "l", "o", "s", "s", "i", "a", "n", "s">>],
  [key |-> <<"D", "a", "n", "i", "e", "l">>,
   num |-> <<>>, min |-> 2,
   name |-> <<"d", "a", "n", "i", "e", "l">>],
  [key |-> <<"D", "e", "u", "t", "e", "r", "o", "n", "o", "m", "y">>,
   num |-> <<>>, min |-> 2,
   name |-> <<"d", "[e|u]", "[e|u]", "t", "e", "r", "o", "n", "o", "m", "y">>],
  [key |-> <<"E", "c", "c", "l", "e", "s", "i", "a", "s", "t", "e", "s">>,
   num |-> <<>>, min |-> 2,
   name |-> <<"e", "c", "c", "l", "e", "s", "i", "a", "s", "t", "e", "s">>],
  [key |-> <<"E", "p", "h", "e", "s", "i", "a", "n", "s">>,
   num |-> <<>>, min |-> 2,
   name |-> <<"e", "p", "h", "e", "s", "i", "a", "n", "s">>],
  [key |-> <<"E", "s", "t", "h", "e", "r">>,
   num |-> <<>>, min |-> 2,
   name |-> <<"e", "s", "t", "h", "e", "r">>],
  [key |-> <<"E", "x", "o", "d", "u", "s">>,
   num |-> <<>>, min |-> 2,
   name |-> <<"e", "x", "o", "d", "u", "s">>],
  [key |-> <<"E", "z", "e", "k", "i", "e", "l">>,
   num |-> <<>>, min |-> 3,
   name |-> <<"e", "z", "e", "k", "i", "e", "l">>],
  [key |-> <<"E", "z", "r", "a">>,
   num |-> <<>>, min |-> 3,
   name |-> <<"e", "z", "r", "a">>],
  [key |-> <<"G", "a", "l", "a", "t", "i", "a", "n", "s">>,
   num |-> <<>>, min |-> 2,
   name |-> <<"g", "a", "l", "a", "t", "i", "a", "n", "s">>],
  [key |-> <<"G", "e", "n", "e", "s", "i", "s">>,
   num |-> <<>>, min |-> 2,
   name |-> <<"g", "e", "n", "e", "s", "i", "s">>],
  [key |-> <<"H", "a", "b", "a", "k", "k", "u", "k">>,
   num |-> <<>>, min |-> 3,
   name |-> <<"h", "a", "b", "a", "k", "k", "u", "k">>],
  [key |-> <<"H", "a", "g", "g", "a", "i">>,
   num |-> <<>>, min |-> 3,
   name |-> <<"h", "a", "g", "g", "a", "i">>],
  [key |-> <<"H", "e", "b", "r", "e", "w", "s">>,
   num |-> <<>>, min |-> 2,
   name |-> <<"h", "e", "b", "r", "e", "w", "s">>],
  [key |-> <<"H", "o", "s", "e", "a">>,
   num |-> <<>>, min |-> 2,
   name |-> <<"h", "o", "s", "e", "a">>],
  [key |-> <<"I", "s", "a", "i", "a", "h">>,
   num |-> <<>>, min |-> 2,
   name |-> <<"i", "s", "a", "i", "a", "h">>],
  [key |-> <<"J", "a", "m", "e", "s">>,
   num |-> <<>>, min |-> 2,
   name |-> <<"j", "a", "m", "e", "s">>],
  [key |-> <<"J", "e", "r", "e", "m", "i", "a", "h">>,
   num |-> <<>>, min |-> 2,
   name |-> <<"j", "e", "r", "e", "m", "i", "a", "h">>],
  [key |-> <<"J", "o", "b">>,
   num |-> <<>>, min |-> 3,
   name |-> <<"j", "o", "b">>],
  [key |-> <<"J", "o", "e", "l">>,
   num |-> <<>>, min |-> 3,
   name |-> <<"j", "o", "e", "l">>],
  [key |-> <<"J", "o", "h", "n">>,
   num |-> <<>>, min |-> 3,
   name |-> <<"j", "o", "h", "n">>],
  [key |-> <<"J", "o", "n", "a", "h">>,
   num |-> <<>>, min |-> 3,
   name |-> <<"j", "o", "n", "a", "h">>],
  [key |-> <<"J", "o", "s", "h", "u", "a">>,
   num |-> <<>>, min |-> 3,
   name |-> <<"j", "o", "s", "h", "u", "a">>],
  [key |-> <<"J", "u", "d", "e">>,
   num |-> <<>>, min |-> 4,
   name |-> <<"j", "u", "d", "e">>],
  [key |-> <<"J", "u", "d", "g", "e", "s">>,
   num |-> <<>>, min |-> 4,
   name |-> <<"j", "u", "d", "g", "e", "s">>],
  [key |-> <<"L", "a", "m", "e", "n", "t", "a", "t", "i", "o", "n", "s">>,
   num |-> <<>>, min |-> 2,
   name |-> <<"l", "a", "m", "e", "n", "t", "a", "t", "i", "o", "n", "s">>],
  [key |-> <<"L", "e", "v", "i", "t", "i", "c", "u", "s">>,
   num |-> <<>>, min |-> 2,
   name |-> <<"l", "e", "v", "i", "t", "i", "c", "u", "s">>],
  [key |-> <<"L", "u", "k", "e">>,
   num |-> <<>>, min |-> 2,
   name |-> <<"l", "u", "k", "e">>],
  [key |-> <<"M", "a", "l", "a", "c", "h", "i">>,
   num |-> <<>>, min |-> 3,
   name |-> <<"m", "a", "l", "a", "c", "h", "i">>],
  [key |-> <<"M", "a", "r", "k">>,
   num |-> <<>>, min |-> 3,
   name |-> <<"m", "a", "r", "k">>],
  [key |-> <<"M", "a", "t", "t", "h", "e", "w">>,
   num |-> <<>>, min |-> 3,
   name |-> <<"m", "a", "t", "t", "h", "e", "w">>],
  [key |-> <<"M", "i", "c", "a", "h">>,
   num |-> <<>>, min |-> 2,
   name |-> <<"m", "i", "c", "a", "h">>],
  [key |-> <<"N", "a", "h", "u", "m">>,
   num |-> <<>>, min |-> 2,
   name |-> <<"n", "a", "h", "u", "m">>],
  [key |-> <<"N", "e", "h", "e", "m", "i", "a", "h">>,
   num |-> <<>>, min |-> 2,
   name |-> <<"n", "e", "h", "e", "m", "i", "a", "h">>],
  [key |-> <<"N", "u", "m", "b", "e", "r", "s">>,
   num |-> <<>>, min |-> 2,
   name |-> <<"n", "u", "m", "b", "e", "r", "s">>],
  [key |-> <<"O", "b", "a", "d", "i", "a", "h">>,
   num |-> <<>>, min |-> 1,
   name |-> <<"o", "b", "a", "d", "i", "a", "h">>],
  [key |-> <<"P", "h", "i", "l", "e", "m", "o", "n">>,
   num |-> <<>>, min |-> 5,
   name |-> <<"p", "h", "i", "l", "e", "m", "o", "n">>],
  [key |-> <<"P", "h", "i", "l", "i", "p", "p", "i", "a", "n", "s">>,
   num |-> <<>>, min |-> 5,
   name |-> <<"p", "h", "i", "l", "i", "p", "p", "i", "a", "n", "s">>],
  [key |-> <<"P", "r", "o", "v", "e", "r", "b", "s">>,
   num |-> <<>>, min |-> 2,
   name |-> <<"p", "r", "o", "v", "e", "r", "b", "s">>],
  [key |-> <<"P", "s", "a", "l", "m", "s">>,
   num |-> <<>>, min |-> 2,
   name |-> <<"p", "s", "a", "l", "m", "s">>],
  [key |-> <<"R", "e", "v", "e", "l", "a", "t", "i", "o", "n">>,
   num |-> <<>>, min |-> 2,
   name |-> <<"r", "e", "v", "e", "l", "a", "t", "i", "o", "n">>],
  [key |-> <<"R", "o", "m", "a", "n", "s">>,
   num |-> <<>>, min |-> 2,
   name |-> <<"r", "o", "m", "a", "n", "s">>],
  [key |-> <<"R", "u", "t", "h">>,
   num |-> <<>>, min |-> 2,
   name |-> <<"r", "u", "t", "h">>],
  [key |-> <<"S", "o", "n", "g", " ", "o", "f", " ", "S", "o", "l", "o", "m", "o", "n">>,
   num |-> <<>>, min |-> 1,
   name |-> <<"s", "o", "n", "g", "\\s*", "o", "f", "\\s*", "s", "o", "l", "o", "m", "o", "n">>],
  [key |-> <<"T", "i", "t", "u", "s">>,
   num |-> <<>>, min |-> 2,
   name |-> <<"t", "i", "t", "u", "s">>],
  [key |-> <<"Z", "e", "c", "h", "a", "r", "i", "a", "h">>,
   num |-> <<>>, min |-> 3,
   name |-> <<"z", "e", "c", "h", "a", "r", "i", "a", "h">>],
  [key |-> <<"Z", "e", "p", "h", "a", "n", "i", "a", "h">>,
   num |-> <<>>, min |-> 3,
   name |-> <<"z", "e", "p", "h", "a", "n", "i", "a", "h">>]
>>

\* only non-name characters from e to the end:  NON_NAME_CHARS*$
OnlyNonName(s, e) == \A i \in e..Len(s) : NON_NAME_CHARS(s[i])

\* The name part of a title pattern,  ab(c(d)?)?NON_NAME_CHARS*$ , with the
\* first k elements of the name matched up to one of the positions P: the
\* text may end here when k has reached the mandatory elements, or go on
\* with the next element.
RECURSIVE NameMatches(_, _, _, _)
NameMatches(pat, k, s, P) ==
  IF P = {} THEN FALSE
  ELSE \/ k >= pat.min /\ \E e \in P : OnlyNonName(s, e)
       \/ /\ k < Len(pat.name)
          /\ NameMatches(pat, k + 1, s, ElemStep(pat.name[k + 1], s, P))

\* PatternIsMatch, but one letter of the name is enough
PatternIsMatch_one_letter(pat, title) ==
  LET afterNum ==
        IF pat.num = <<>> THEN {1}
        ELSE LET e == NumEnds(pat.num, title, 1)
             IN  ElemStep("\\s*", title, {e[i] : i \in 1..Len(e)})
  IN  NameMatches([pat EXCEPT !.min = 1], 0, title, afterNum)

\* A title pattern  (?i)^(NUM)\s*ab(c(d)?)?NON_NAME_CHARS*$ : the ordinal
\* (when the pattern has one), any whitespace, the first min elements of
\* the name and any number of further ones, then only non-name characters.
PatternIsMatch(pat, title) ==
  LET afterNum ==
        IF pat.num = <<>> THEN {1}
        ELSE LET e == NumEnds(pat.num, title, 1)
             IN  ElemStep("\\s*", title, {e[i] : i \in 1..Len(e)})
  IN  NameMatches(pat, 0, title, afterNum)

\* get_proper_title, but the text that matched is returned, not the key
get_proper_title_as_typed(title) ==
  IF \E j \in 1..Len(book_matcher) : PatternIsMatch(book_matcher[j], title)
  THEN {title} ELSE {}

\* The keys whose pattern matches.  The map is iterated in arbitrary order
\* and the first match returned: any of them can be the result, and there
\* is none (the empty set) when no pattern matches.
get_proper_title(title) ==
  {book_matcher[i].key : i \in {j \in 1..Len(book_matcher) :
                                  PatternIsMatch(book_matcher[j], title)}}

\* get_title after the regex: the title that get_title_from_captures
\* formats, None when the regex did not match
TitleOfCaptures(captures) ==
  IF IsSome(captures) THEN get_title_from_captures(captures.v) ELSE None

\* the Options get_proper_title can return for the keys that match
KeyOptions(keys) == IF keys = {} THEN {None} ELSE {Some(k) : k \in keys}

\* get_title after the regex and the formatting
ProperTitleOf(title) ==
  IF title = Panic THEN {Panic}
  ELSE IF ~IsSome(title) THEN {None}
  ELSE KeyOptions(get_proper_title(title.v))

\* The possible results of get_title: None, Some(key) or Panic
get_title(query) == ProperTitleOf(TitleOfCaptures(get_book_regex(query)))

\* Some(s) unless s is empty
NonEmpty(s) == IF s # <<>> THEN Some(s) ELSE None

\* get_params after the regex: the query without the text that matched
ParamsOfCaptures(query, captures) ==
  IF ~IsSome(captures) THEN None
  ELSE NonEmpty(RemoveAll(query, captures.v.all, 1))

get_params(query) == ParamsOfCaptures(query, get_book_regex(query))
\* ------------------------------------------------------------------------
\* params.rs: the reference parser
\* ------------------------------------------------------------------------

\* match_or_none: the text of a capture group parsed as u8
match_or_none(text) == parse_u8(text)

\* '.' matches every character but the line feed
IsDot(c) == c # "\n"

\* $ at p without the .* : the text has to end at p
RestMatches_end(s, p) == p > Len(s)

\* .*$ at p: the rest of the text, without a line feed
RestMatches(s, p) == \A i \in p..Len(s) : IsDot(s[i])

MaxNumDigits == 3

\* (\d{1,3}) at p when the pattern goes on with something that is not a
\* digit: it has to take the whole run of digits, of 1 to 3 characters.
\* The length taken, or 0 when the group cannot match.
NumGroup(s, p) ==
  LET n == DigitRun(s, p) IN IF n >= 1 /\ n <= MaxNumDigits THEN n ELSE 0

\* (\d{1,3}) at p before .* : greedy, the first 1 to 3 digits of the run
LastNumGroup(s, p) == Min(DigitRun(s, p), MaxNumDigits)

\* SpacesThen without the \s* : the literal character c has to be at p
SpacesThen_tight(s, p, c) ==
  IF p <= Len(s) /\ s[p] = c THEN p + 1 ELSE 0

\* \s* followed by the literal character c: the position after c, or 0
SpacesThen(s, p, c) ==
  LET q == p + SpaceRun(s, p)
  IN  IF q <= Len(s) /\ s[q] = c THEN q + 1 ELSE 0

\* get_match_data: the captures of the regex of a search type, each
\* parsed with match_or_none, or None when the regex does not match.
\* The three regexes share their prefix:
\*   ^\s*(?<chapter>\d{1,3})
\*       [ \s*:\s*(?<verse_start>\d{1,3}) [ \s*-\s*(?<verse_end>\d{1,3}) ] ] .*$
\* fields is the number of numeric groups of the regex (1, 2 or 3).
get_match_data(title, params, search_type, fields) ==
  LET c0 == 1 + SpaceRun(params, 1)
      cn == IF fields = 1 THEN LastNumGroup(params, c0) ELSE NumGroup(params, c0)
      colon == IF cn = 0 THEN 0 ELSE SpacesThen(params, c0 + cn, ":")
      s0 == colon + SpaceRun(params, colon)
      sn == IF colon = 0 THEN 0
            ELSE IF fields = 2 THEN LastNumGroup(params, s0)
            ELSE NumGroup(params, s0)
      dash == IF sn = 0 THEN 0 ELSE SpacesThen(params, s0 + sn, "-")
      e0 == dash + SpaceRun(params, dash)
      en == IF dash = 0 THEN 0 ELSE LastNumGroup(params, e0)
      end == CASE fields = 1 -> IF cn = 0 THEN 0 ELSE c0 + cn
               [] fields = 2 -> IF sn = 0 THEN 0 ELSE s0 + sn
               [] fields = 3 -> IF en = 0 THEN 0 ELSE e0 + en
  IN  IF end = 0 \/ ~RestMatches(params, end) THEN None
      ELSE Some([search_type |-> search_type,
                 title |-> title,
                 chapter |-> match_or_none(Slice(params, c0, c0 + cn)),
                 verse_start |-> IF fields >= 2
                                 THEN match_or_none(Slice(params, s0, s0 + sn))
                                 ELSE None,
                 verse_end |-> IF fields = 3
                               THEN match_or_none(Slice(params, e0, e0 + en))
                               ELSE None])

get_book(title) ==
  [search_type |-> "Book", title |-> title,
   chapter |-> None, verse_start |-> None, verse_end |-> None]

\* ^\s*(?<chapter>\d{1,3}).*$
get_chapter(title, params) == get_match_data(title, params, "Chapter", 1)

\* ^\s*(?<chapter>\d{1,3})\s*:\s*(?<verse_start>\d{1,3}).*$
get_verse(title, params) == get_match_data(title, params, "Verse", 2)

\* ^\s*(?<chapter>\d{1,3})\s*:\s*(?<verse_start>\d{1,3})\s*-\s*(?<verse_end>\d{1,3}).*$
get_verse_range(title, params) == get_match_data(title, params, "VerseRange", 3)

\* SearchParamsOf, but the chapter regex is tried first
SearchParamsOf_chapter_first(title, params) ==
  IF ~IsSome(params) THEN get_book(title)
  ELSE OrElse(get_chapter(title, params.v),
         OrElse(get_verse_range(title, params.v),
           OrElse(get_verse(title, params.v), Some(get_book(title))))).v

\* get_search_params once get_title has returned title and get_params
\* params: the first search type whose regex matches, from the most
\* specific one on, and Book when none does
SearchParamsOf(title, params) ==
  IF ~IsSome(params) THEN get_book(title)
  ELSE OrElse(get_verse_range(title, params.v),
         OrElse(get_verse(title, params.v),
           OrElse(get_chapter(title, params.v), Some(get_book(title))))).v

\* The possible results of get_search_params: None, Some(BookParams), Panic
get_search_params(query) ==
  {IF IsSome(t) THEN Some(SearchParamsOf(t.v, get_params(query))) ELSE t :
     t \in get_title(query)}

\* get_sub_queries, but the pieces are not trimmed
get_sub_queries_untrimmed(query) ==
  LET v == SplitComma(Trim(query), <<>>)
  IN  [head |-> IF v[1] = <<>> THEN None ELSE Some(v[1]),
       tail |-> Tail(v)]

get_sub_queries(query) ==
  LET pieces == SplitComma(Trim(query), <<>>)
      v == [i \in 1..Len(pieces) |-> Trim(pieces[i])]
  IN  [head |-> IF v[1] = <<>> THEN None ELSE Some(v[1]),
       tail |-> Tail(v)]

\* ------------------------------------------------------------------------
\* chapter.rs and the verse module: the canon table
\* ------------------------------------------------------------------------

chapter_counts ==
  <<"1", " ", "C", "h", "r", "o", "n", "i", "c", "l", "e", "s">> :> 29 @@
  <<"1", " ", "C", "o", "r", "i", "n", "t", "h", "i", "a", "n", "s">> :> 16 @@
  <<"1", " ", "J", "o", "h", "n">> :> 5 @@
  <<"1", " ", "K", "i", "n", "g", "s">> :> 22 @@
  <<"1", " ", "P", "e", "t", "e", "r">> :> 5 @@
  <<"1", " ", "S", "a", "m", "u", "e", "l">> :> 31 @@
  <<"1", " ", "T", "h", "e", "s", "s", "a", "l", "o", "n", "i", "a", "n", "s">> :> 5 @@
  <<"1", " ", "T", "i", "m", "o", "t", "h", "y">> :> 6 @@
  <<"2", " ", "C", "h", "r", "o", "n", "i", "c", "l", "e", "s">> :> 36 @@
  <<"2", " ", "C", "o", "r", "i", "n", "t", "h", "i", "a", "n", "s">> :> 13 @@
  <<"2", " ", "J", "o", "h", "n">> :> 1 @@
  <<"2", " ", "K", "i", "n", "g", "s">> :> 25 @@
  <<"2", " ", "P", "e", "t", "e", "r">> :> 3 @@
  <<"2", " ", "S", "a", "m", "u", "e", "l">> :> 24 @@
  <<"2", " ", "T", "h", "e", "s", "s", "a", "l", "o", "n", "i", "a", "n", "s">> :> 3 @@
  <<"2", " ", "T", "i", "m", "o", "t", "h", "y">> :> 4 @@
  <<"3", " ", "J", "o", "h", "n">> :> 1 @@
  <<"A", "c", "t", "s">> :> 28 @@
  <<"A", "m", "o", "s">> :> 9 @@
  <<"C", "o", "l", "o", "s", "s", "i", "a", "n", "s">> :> 4 @@
  <<"D", "a", "n", "i", "e", "l">> :> 12 @@
  <<"D", "e", "u", "t", "e", "r", "o", "n", "o", "m", "y">> :> 34 @@
  <<"E", "c", "c", "l", "e", "s", "i", "a", "s", "t", "e", "s">> :> 12 @@
  <<"E", "p", "h", "e", "s", "i", "a", "n", "s">> :> 6 @@
  <<"E", "s", "t", "h", "e", "r">> :> 10 @@
  <<"E", "x", "o", "d", "u", "s">> :> 40 @@
  <<"E", "z", "e", "k", "i", "e", "l">> :> 48 @@
  <<"E", "z", "r", "a">> :> 10 @@
  <<"G", "a", "l", "a", "t", "i", "a", "n", "s">> :> 6 @@
  <<"G", "e", "n", "e", "s", "i", "s">> :> 50 @@
  <<"H", "a", "b", "a", "k", "k", "u", "k">> :> 3 @@
  <<"H", "a", "g", "g", "a", "i">> :> 2 @@
  <<"H", "e", "b", "r", "e", "w", "s">> :> 13 @@
  <<"H", "o", "s", "e", "a">> :> 14 @@
  <<"I", "s", "a", "i", "a", "h">> :> 66 @@
  <<"J", "a", "m", "e", "s">> :> 5 @@
  <<"J", "e", "r", "e", "m", "i", "a", "h">> :> 52 @@
  <<"J", "o", "b">> :> 42 @@
  <<"J", "o", "e", "l">> :> 3 @@
  <<"J", "o", "h", "n">> :> 21 @@
  <<"J", "o", "n", "a", "h">> :> 4 @@
  <<"J", "o", "s", "h", "u", "a">> :> 24 @@
  <<"J", "u", "d", "e">> :> 1 @@
  <<"J", "u", "d", "g", "e", "s">> :> 21 @@
  <<"L", "a", "m", "e", "n", "t", "a", "t", "i", "o", "n", "s">> :> 5 @@
  <<"L", "e", "v", "i", "t", "i", "c", "u", "s">> :> 27 @@
  <<"L", "u", "k", "e">> :> 24 @@
  <<"M", "a", "l", "a", "c", "h", "i">> :> 4 @@
  <<"M", "a", "r", "k">> :> 16 @@
  <<"M", "a", "t", "t", "h", "e", "w">> :> 28 @@
  <<"M", "i", "c", "a", "h">> :> 7 @@
  <<"N", "a", "h", "u", "m">> :> 3 @@
  <<"N", "e", "h", "e", "m", "i", "a", "h">> :> 13 @@
  <<"N", "u", "m", "b", "e", "r", "s">> :> 36 @@
  <<"O", "b", "a", "d", "i", "a", "h">> :> 1 @@
  <<"P", "h", "i", "l", "e", "m", "o", "n">> :> 1 @@
  <<"P", "h", "i", "l", "i", "p", "p", "i", "a", "n", "s">> :> 4 @@
  <<"P", "r", "o", "v", "e", "r", "b", "s">> :> 31 @@
  <<"P", "s", "a", "l", "m", "s">> :> 150 @@
  <<"R", "e", "v", "e", "l", "a", "t", "i", "o", "n">> :> 22 @@
  <<"R", "o", "m", "a", "n", "s">> :> 16 @@
  <<"R", "u", "t", "h">> :> 4 @@
  <<"S", "o", "n", "g", " ", "o", "f", " ", "S", "o", "l", "o", "m", "o", "n">> :> 8 @@
  <<"T", "i", "t", "u", "s">> :> 3 @@
  <<"Z", "e", "c", "h", "a", "r", "i", "a", "h">> :> 14 @@
  <<"Z", "e", "p", "h", "a", "n", "i", "a", "h">> :> 3

\* get_chapter_count_by_book with a table that has no numbered book
get_chapter_count_by_book_unnumbered(book) ==
  IF book \in DOMAIN chapter_counts /\ ~IsDigit(book[1])
  THEN Some(chapter_counts[book]) ELSE None

get_chapter_count_by_book(book) ==
  IF book \in DOMAIN chapter_counts THEN Some(chapter_counts[book]) ELSE None

\* chapter_exists_in_book without the lower bound
chapter_exists_in_book_from_zero(book, chapter) ==
  LET num_chapters == get_chapter_count_by_book(book)
  IN  IF ~IsSome(num_chapters) THEN FALSE
      ELSE chapter <= num_chapters.v

chapter_exists_in_book(book, chapter) ==
  LET num_chapters == get_chapter_count_by_book(book)
  IN  IF ~IsSome(num_chapters) THEN FALSE
      ELSE chapter >= 1 /\ chapter <= num_chapters.v

\* The per-chapter verse counts of each book (the standard counts; a
\* chapter's verses are numbered from 1).
verse_counts ==
  <<"1", " ", "C", "h", "r", "o", "n", "i", "c", "l", "e", "s">> :>
    <<54, 55, 24, 43, 26, 81, 40, 40, 44, 14, 47, 40, 14, 17, 29, 43, 27, 17, 19, 8, 30, 19, 32, 31, 31, 32, 34, 21, 30>> @@
  <<"1", " ", "C", "o", "r", "i", "n", "t", "h", "i", "a", "n", "s">> :>
    <<31, 16, 23, 21, 13, 20, 40, 13, 27, 33, 34, 31, 13, 40, 58, 24>> @@
  <<"1", " ", "J", "o", "h", "n">> :>
    <<10, 29, 24, 21, 21>> @@
  <<"1", " ", "K", "i", "n", "g", "s">> :>
    <<53, 46, 28, 34, 18, 38, 51, 66, 28, 29, 43, 33, 34, 31, 34, 34, 24, 46, 21, 43, 29, 53>> @@
  <<"1", " ", "P", "e", "t", "e", "r">> :>
    <<25, 25, 22, 19, 14>> @@
  <<"1", " ", "S", "a", "m", "u", "e", "l">> :>
    <<28, 36, 21, 22, 12, 21, 17, 22, 27, 27, 15, 25, 23, 52, 35, 23, 58, 30, 24, 42, 15, 23, 29, 22, 44, 25, 12, 25, 11, 31, 13>> @@
  <<"1", " ", "T", "h", "e", "s", "s", "a", "l", "o", "n", "i", "a", "n", "s">> :>
    <<10, 20, 13, 18, 28>> @@
  <<"1", " ", "T", "i", "m", "o", "t", "h", "y">> :>
    <<20, 15, 16, 16, 25, 21>> @@
  <<"2", " ", "C", "h", "r", "o", "n", "i", "c", "l", "e", "s">> :>
    <<17, 18, 17, 22, 14, 42, 22, 18, 31, 19, 23, 16, 22, 15, 19, 14, 19, 34, 11, 37, 20, 12, 21, 27, 28, 23, 9, 27, 36, 27, 21, 33, 25, 33, 27, 23>> @@
  <<"2", " ", "C", "o", "r", "i", "n", "t", "h", "i", "a", "n", "s">> :>
    <<24, 17, 18, 18, 21, 18, 16, 24, 15, 18, 33, 21, 14>> @@
  <<"2", " ", "J", "o", "h", "n">> :>
    <<13>> @@
  <<"2", " ", "K", "i", "n", "g", "s">> :>
    <<18, 25, 27, 44, 27, 33, 20, 29, 37, 36, 21, 21, 25, 29, 38, 20, 41, 37, 37, 21, 26, 20, 37, 20, 30>> @@
  <<"2", " ", "P", "e", "t", "e", "r">> :>
    <<21, 22, 18>> @@
  <<"2", " ", "S", "a", "m", "u", "e", "l">> :>
    <<27, 32, 39, 12, 25, 23, 29, 18, 13, 19, 27, 31, 39, 33, 37, 23, 29, 33, 43, 26, 22, 51, 39, 25>> @@
  <<"2", " ", "T", "h", "e", "s", "s", "a", "l", "o", "n", "i", "a", "n", "s">> :>
    <<12, 17, 18>> @@
  <<"2", " ", "T", "i", "m", "o", "t", "h", "y">> :>
    <<18, 26, 17, 22>> @@
  <<"3", " ", "J", "o", "h", "n">> :>
    <<14>> @@
  <<"A", "c", "t", "s">> :>
    <<26, 47, 26, 37, 42, 15, 60, 40, 43, 48, 30, 25, 52, 28, 41, 40, 34, 28, 41, 38, 40, 30, 35, 27, 27, 32, 44, 31>> @@
  <<"A", "m", "o", "s">> :>
    <<15, 16, 15, 13, 27, 14, 17, 14, 15>> @@
  <<"C", "o", "l", "o", "s", "s", "i", "a", "n", "s">> :>
    <<29, 23, 25, 18>> @@
  <<"D", "a", "n", "i", "e", "l">> :>
    <<21, 49, 30, 37, 31, 28, 28, 27, 27, 21, 45, 13>> @@
  <<"D", "e", "u", "t", "e", "r", "o", "n", "o", "m", "y">> :>
    <<46, 37, 29, 49, 33, 25, 26, 20, 29, 22, 32, 32, 18, 29, 23, 22, 20, 22, 21, 20, 23, 30, 25, 22, 19, 19, 26, 68, 29, 20, 30, 52, 29, 12>> @@
  <<"E", "c", "c", "l", "e", "s", "i", "a", "s", "t", "e", "s">> :>
    <<18, 26, 22, 16, 20, 12, 29, 17, 18, 20, 10, 14>> @@
  <<"E", "p", "h", "e", "s", "i", "a", "n", "s">> :>
    <<23, 22, 21, 32, 33, 24>> @@
  <<"E", "s", "t", "h", "e", "r">> :>
    <<22, 23, 15, 17, 14, 14, 10, 17, 32, 3>> @@
  <<"E", "x", "o", "d", "u", "s">> :>
    <<22, 25, 22, 31, 23, 30, 25, 32, 35, 29, 10, 51, 22, 31, 27, 36, 16, 27, 25, 26, 36, 31, 33, 18, 40, 37, 21, 43, 46, 38, 18, 35, 23, 35, 35, 38, 29, 31, 43, 38>> @@
  <<"E", "z", "e", "k", "i", "e", "l">> :>
    <<28, 10, 27, 17, 17, 14, 27, 18, 11, 22, 25, 28, 23, 23, 8, 63, 24, 32, 14, 49, 32, 31, 49, 27, 17, 21, 36, 26, 21, 26, 18, 32, 33, 31, 15, 38, 28, 23, 29, 49, 26, 20, 27, 31, 25, 24, 23, 35>> @@
  <<"E", "z", "r", "a">> :>
    <<11, 70, 13, 24, 17, 22, 28, 36, 15, 44>> @@
  <<"G", "a", "l", "a", "t", "i", "a", "n", "s">> :>
    <<24, 21, 29, 31, 26, 18>> @@
  <<"G", "e", "n", "e", "s", "i", "s">> :>
    <<31, 25, 24, 26, 32, 22, 24, 22, 29, 32, 32, 20, 18, 24, 21, 16, 27, 33, 38, 18, 34, 24, 20, 67, 34, 35, 46, 22, 35, 43, 55, 32, 20, 31, 29, 43, 36, 30, 23, 23, 57, 38, 34, 34, 28, 34, 31, 22, 33, 26>> @@
  <<"H", "a", "b", "a", "k", "k", "u", "k">> :>
    <<17, 20, 19>> @@
  <<"H", "a", "g", "g", "a", "i">> :>
    <<15, 23>> @@
  <<"H", "e", "b", "r", "e", "w", "s">> :>
    <<14, 18, 19, 16, 14, 20, 28, 13, 28, 39, 40, 29, 25>> @@
  <<"H", "o", "s", "e", "a">> :>
    <<11, 23, 5, 19, 15, 11, 16, 14, 17, 15, 12, 14, 16, 9>> @@
  <<"I", "s", "a", "i", "a", "h">> :>
    <<31, 22, 26, 6, 30, 13, 25, 22, 21, 34, 16, 6, 22, 32, 9, 14, 14, 7, 25, 6, 17, 25, 18, 23, 12, 21, 13, 29, 24, 33, 9, 20, 24, 17, 10, 22, 38, 22, 8, 31, 29, 25, 28, 28, 25, 13, 15, 22, 26, 11, 23, 15, 12, 17, 13, 12, 21, 14, 21, 22, 11, 12, 19, 12, 25, 24>> @@
  <<"J", "a", "m", "e", "s">> :>
    <<27, 26, 18, 17, 20>> @@
  <<"J", "e", "r", "e", "m", "i", "a", "h">> :>
    <<19, 37, 25, 31, 31, 30, 34, 22, 26, 25, 23, 17, 27, 22, 21, 21, 27, 23, 15, 18, 14, 30, 40, 10, 38, 24, 22, 17, 32, 24, 40, 44, 26, 22, 19, 32, 21, 28, 18, 16, 18, 22, 13, 30, 5, 28, 7, 47, 39, 46, 64, 34>> @@
  <<"J", "o", "b">> :>
    <<22, 13, 26, 21, 27, 30, 21, 22, 35, 22, 20, 25, 28, 22, 35, 22, 16, 21, 29, 29, 34, 30, 17, 25, 6, 14, 23, 28, 25, 31, 40, 22, 33, 37, 16, 33, 24, 41, 30, 24, 34, 17>> @@
  <<"J", "o", "e", "l">> :>
    <<20, 32, 21>> @@
  <<"J", "o", "h", "n">> :>
    <<51, 25, 36, 54, 47, 71, 53, 59, 41, 42, 57, 50, 38, 31, 27, 33, 26, 40, 42, 31, 25>> @@
  <<"J", "o", "n", "a", "h">> :>
    <<17, 10, 10, 11>> @@
  <<"J", "o", "s", "h", "u", "a">> :>
    <<18, 24, 17, 24, 15, 27, 26, 35, 27, 43, 23, 24, 33, 15, 63, 10, 18, 28, 51, 9, 45, 34, 16, 33>> @@
  <<"J", "u", "d", "e">> :>
    <<25>> @@
  <<"J", "u", "d", "g", "e", "s">> :>
    <<36, 23, 31, 24, 31, 40, 25, 35, 57, 18, 40, 15, 25, 20, 20, 31, 13, 31, 30, 48, 25>> @@
  <<"L", "a", "m", "e", "n", "t", "a", "t", "i", "o", "n", "s">> :>
    <<22, 22, 66, 22, 22>> @@
  <<"L", "e", "v", "i", "t", "i", "c", "u", "s">> :>
    <<17, 16, 17, 35, 19, 30, 38, 36, 24, 20, 47, 8, 59, 57, 33, 34, 16, 30, 37, 27, 24, 33, 44, 23, 55, 46, 34>> @@
  <<"L", "u", "k", "e">> :>
    <<80, 52, 38, 44, 39, 49, 50, 56, 62, 42, 54, 59, 35, 35, 32, 31, 37, 43, 48, 47, 38, 71, 56, 53>> @@
  <<"M", "a", "l", "a", "c", "h", "i">> :>
    <<14, 17, 18, 6>> @@
  <<"M", "a", "r", "k">> :>
    <<45, 28, 35, 41, 43, 56, 37, 38, 50, 52, 33, 44, 37, 72, 47, 20>> @@
  <<"M", "a", "t", "t", "h", "e", "w">> :>
    <<25, 23, 17, 25, 48, 34, 29, 34, 38, 42, 30, 50, 58, 36, 39, 28, 27, 35, 30, 34, 46, 46, 39, 51, 46, 75, 66, 20>> @@
  <<"M", "i", "c", "a", "h">> :>
    <<16, 13, 12, 13, 15, 16, 20>> @@
  <<"N", "a", "h", "u", "m">> :>
    <<15, 13, 19>> @@
  <<"N", "e", "h", "e", "m", "i", "a", "h">> :>
    <<11, 20, 32, 23, 19, 19, 73, 18, 38, 39, 36, 47, 31>> @@
  <<"N", "u", "m", "b", "e", "r", "s">> :>
    <<54, 34, 51, 49, 31, 27, 89, 26, 23, 36, 35, 16, 33, 45, 41, 50, 13, 32, 22, 29, 35, 41, 30, 25, 18, 65, 23, 31, 40, 16, 54, 42, 56, 29, 34, 13>> @@
  <<"O", "b", "a", "d", "i", "a", "h">> :>
    <<21>> @@
  <<"P", "h", "i", "l", "e", "m", "o", "n">> :>
    <<25>> @@
  <<"P", "h", "i", "l", "i", "p", "p", "i", "a", "n", "s">> :>
    <<30, 30, 21, 23>> @@
  <<"P", "r", "o", "v", "e", "r", "b", "s">> :>
    <<33, 22, 35, 27, 23, 35, 27, 36, 18, 32, 31, 28, 25, 35, 33, 33, 28, 24, 29, 30, 31, 29, 35, 34, 28, 28, 27, 28, 27, 33, 31>> @@
  <<"P", "s", "a", "l", "m", "s">> :>
    <<6, 12, 8, 8, 12, 10, 17, 9, 20, 18, 7, 8, 6, 7, 5, 11, 15, 50, 14, 9, 13, 31, 6, 10, 22, 12, 14, 9, 11, 12, 24, 11, 22, 22, 28, 12, 40, 22, 13, 17, 13, 11, 5, 26, 17, 11, 9, 14, 20, 23, 19, 9, 6, 7, 23, 13, 11, 11, 17, 12, 8, 12, 11, 10, 13, 20, 7, 35, 36, 5, 24, 20, 28, 23, 10, 12, 20, 72, 13, 19, 16, 8, 18, 12, 13, 17, 7, 18, 52, 17, 16, 15, 5, 23, 11, 13, 12, 9, 9, 5, 8, 28, 22, 35, 45, 48, 43, 13, 31, 7, 10, 10, 9, 8, 18, 19, 2, 29, 176, 7, 8, 9, 4, 8, 5, 6, 5, 6, 8, 8, 3, 18, 3, 3, 21, 26, 9, 8, 24, 13, 10, 7, 12, 15, 21, 10, 20, 14, 9, 6>> @@
  <<"R", "e", "v", "e", "l", "a", "t", "i", "o", "n">> :>
    <<20, 29, 22, 11, 14, 17, 17, 13, 21, 11, 19, 17, 18, 20, 8, 21, 18, 24, 21, 15, 27, 21>> @@
  <<"R", "o", "m", "a", "n", "s">> :>
    <<32, 29, 31, 25, 21, 23, 25, 39, 33, 21, 36, 21, 14, 23, 33, 27>> @@
  <<"R", "u", "t", "h">> :>
    <<22, 23, 18, 22>> @@
  <<"S", "o", "n", "g", " ", "o", "f", " ", "S", "o", "l", "o", "m", "o", "n">> :>
    <<17, 17, 11, 16, 16, 13, 13, 14>> @@
  <<"T", "i", "t", "u", "s">> :>
    <<16, 15, 15>> @@
  <<"Z", "e", "c", "h", "a", "r", "i", "a", "h">> :>
    <<21, 13, 10, 14, 11, 15, 14, 23, 17, 12, 17, 14, 9, 21>> @@
  <<"Z", "e", "p", "h", "a", "n", "i", "a", "h">> :>
    <<18, 15, 20>>

get_verse_count_by_book_and_chapter(book, chapter) ==
  IF book \in DOMAIN verse_counts /\ chapter \in 1..Len(verse_counts[book])
  THEN Some(verse_counts[book][chapter])
  ELSE None

verse_exists_in_chapter(book, chapter, verse) ==
  LET count == get_verse_count_by_book_and_chapter(book, chapter)
  IN  IF ~IsSome(count) THEN FALSE
      ELSE verse >= 1 /\ verse <= count.v

\* The verses of start..=end that the chapter has, or None when it has none
get_verse_range_from_params(book, chapter, start, end) ==
  LET range == {n \in start..end : verse_exists_in_chapter(book, chapter, n)}
  IN  IF range = {} THEN None ELSE Some(range)

\* ------------------------------------------------------------------------
\* search.rs: the selection resolver
\* ------------------------------------------------------------------------

BookParams(search_type, title, chapter) ==
  [search_type |-> search_type, title |-> title, chapter |-> chapter,
   verse_start |-> None, verse_end |-> None]

BibleSearch(title, chapter, verses) ==
  [tag |-> "Ok", title |-> title, chapter |-> chapter, verses |-> verses]

Err == [tag |-> "Err"]

\* unwrap_chapter, but a chapter past the last one is clamped to the last
unwrap_chapter_clamping(book, chapter) ==
  IF IsSome(chapter) /\ chapter_exists_in_book(book, chapter.v)
  THEN Some(chapter.v)
  ELSE IF IsSome(chapter) /\ IsSome(get_chapter_count_by_book(book)) /\ chapter.v >= 1
  THEN get_chapter_count_by_book(book)
  ELSE Err

\* Ok(chapter_num) or Err
unwrap_chapter(book, chapter) ==
  IF IsSome(chapter) /\ chapter_exists_in_book(book, chapter.v)
  THEN Some(chapter.v)
  ELSE Err

\* unwrap_verse without the check against the chapter
unwrap_verse_unchecked(book, chapter, verse) ==
  IF IsSome(verse) THEN Some(verse.v) ELSE Err

\* Ok(verse_num) or Err
unwrap_verse(book, chapter, verse) ==
  IF IsSome(verse) /\ verse_exists_in_chapter(book, chapter, verse.v)
  THEN Some(verse.v)
  ELSE Err

\* unwrap_verse_range, but a range without verses is Ok
unwrap_verse_range_or_empty(book, chapter, verse_start, verse_end) ==
  IF ~IsSome(verse_start) \/ ~IsSome(verse_end) THEN Panic
  ELSE LET range == get_verse_range_from_params(book, chapter,
                                                verse_start.v, verse_end.v)
       IN  IF IsSome(range) THEN range ELSE Some({})

\* Ok(range) or Err; Option::unwrap of an absent bound panics
unwrap_verse_range(book, chapter, verse_start, verse_end) ==
  IF ~IsSome(verse_start) \/ ~IsSome(verse_end) THEN Panic
  ELSE LET range == get_verse_range_from_params(book, chapter,
                                                verse_start.v, verse_end.v)
       IN  IF IsSome(range) THEN range ELSE Err

\* process_sub_queries without the check against the chapter
process_sub_queries_unchecked(title, chapter, subs) ==
  {s.v : s \in {o \in {parse_u8(subs[i]) : i \in 1..Len(subs)} : IsSome(o)}}

\* the sub-queries that parse as u8 and name a verse of the chapter
process_sub_queries(title, chapter, subs) ==
  LET parsed == {parse_u8(subs[i]) : i \in 1..Len(subs)}
  IN  {s.v : s \in {o \in parsed :
                      IsSome(o) /\ verse_exists_in_chapter(title, chapter, o.v)}}

\* A handler ends in a BibleSearch, in a panic, or in a call of another
\* handler (the last thing it does): Call(fn, params).
Call(fn, params) == [tag |-> "Call", fn |-> fn, params |-> params]

\* book_to_bible_search, but with the second chapter
book_to_bible_search_second(params) ==
  Call("chapter", BookParams("Chapter", params.title, Some(2)))

book_to_bible_search(params) ==
  Call("chapter", BookParams("Chapter", params.title, Some(1)))

revert_to_book_search(title) ==
  Call("book", BookParams("Book", title, None))

revert_to_chapter_search(title, chapter) ==
  Call("chapter", BookParams("Chapter", title, Some(chapter)))

chapter_to_bible_search(params) ==
  LET chapter == unwrap_chapter(params.title, params.chapter)
      verses_in_chapter ==
        get_verse_count_by_book_and_chapter(params.title, chapter.v)
  IN  IF chapter = Err THEN revert_to_book_search(params.title)
      ELSE IF ~IsSome(verses_in_chapter) THEN Panic
      ELSE BibleSearch(params.title, chapter.v, 1..verses_in_chapter.v)

\* verse_to_bible_search without the two validations
verse_to_bible_search_unchecked(params) ==
  IF ~IsSome(params.chapter) \/ ~IsSome(params.verse_start) THEN Panic
  ELSE BibleSearch(params.title, params.chapter.v, {params.verse_start.v})

\* verse_to_bible_search, but a bad verse reverts to the book
verse_to_bible_search_to_book(params) ==
  LET chapter == unwrap_chapter(params.title, params.chapter)
      verses_start == unwrap_verse(params.title, chapter.v, params.verse_start)
  IN  IF chapter = Err THEN revert_to_book_search(params.title)
      ELSE IF verses_start = Err THEN revert_to_book_search(params.title)
      ELSE BibleSearch(params.title, chapter.v, {verses_start.v})

verse_to_bible_search(params) ==
  LET chapter == unwrap_chapter(params.title, params.chapter)
      verses_start == unwrap_verse(params.title, chapter.v, params.verse_start)
  IN  IF chapter = Err THEN revert_to_book_search(params.title)
      ELSE IF verses_start = Err
        THEN revert_to_chapter_search(params.title, chapter.v)
      ELSE BibleSearch(params.title, chapter.v, {verses_start.v})

\* verse_range_to_bible_search, but a bad range reverts to the book
verse_range_to_bible_search_to_book(params) ==
  LET chapter == unwrap_chapter(params.title, params.chapter)
      verses_range == unwrap_verse_range(params.title, chapter.v,
                                         params.verse_start, params.verse_end)
  IN  IF chapter = Err THEN revert_to_book_search(params.title)
      ELSE IF verses_range = Panic THEN Panic
      ELSE IF verses_range = Err THEN revert_to_book_search(params.title)
      ELSE BibleSearch(params.title, chapter.v, verses_range.v)

verse_range_to_bible_search(params) ==
  LET chapter == unwrap_chapter(params.title, params.chapter)
      verses_range == unwrap_verse_range(params.title, chapter.v,
                                         params.verse_start, params.verse_end)
  IN  IF chapter = Err THEN revert_to_book_search(params.title)
      ELSE IF verses_range = Panic THEN Panic
      ELSE IF verses_range = Err
        THEN revert_to_chapter_search(params.title, chapter.v)
      ELSE BibleSearch(params.title, chapter.v, verses_range.v)

\* the handler process_query picks for a search type
HandlerOf(search_type) ==
  CASE search_type = "Book" -> "book"
    [] search_type = "Chapter" -> "chapter"
    [] search_type = "Verse" -> "verse"
    [] search_type = "VerseRange" -> "verse_range"

\* search with the verses of the admitted sub-queries in place of the
\* union with the verses of the head
combined_search_of_subs(main, sub) ==
  BibleSearch(main.title, main.chapter,
              process_sub_queries(main.title, main.chapter, sub))

\* search, once process_query has returned Ok(main): the verses of the
\* sub-queries are joined with the verses of the head
combined_search(main, sub) ==
  BibleSearch(main.title, main.chapter,
              main.verses \cup process_sub_queries(main.title, main.chapter, sub))

\* the handler named fn applied to params
handler(fn, params) ==
  CASE fn = "book" -> book_to_bible_search(params)
    [] fn = "chapter" -> chapter_to_bible_search(params)
    [] fn = "verse" -> verse_to_bible_search(params)
    [] fn = "verse_range" -> verse_range_to_bible_search(params)

\* what a handler returns once the handlers it calls have returned
RECURSIVE FollowCalls(_)
FollowCalls(outcome) ==
  IF outcome.tag = "Call" THEN FollowCalls(handler(outcome.fn, outcome.params))
  ELSE outcome

\* The possible results of process_query: Ok(BibleSearch), Err or a panic
process_query(query) ==
  { IF IsSome(p) THEN FollowCalls(Call(HandlerOf(p.v.search_type), p.v))
    ELSE IF p = Panic THEN Panic ELSE Err :
      p \in get_search_params(query) }

\* search once get_sub_queries has split the query
SearchOf(split) ==
  IF ~IsSome(split.head) THEN {Err}
  ELSE { IF r.tag = "Ok" THEN combined_search(r, split.tail) ELSE r :
           r \in process_query(split.head.v) }

\* The possible results of search(query), as one function of the query
search(query) == SearchOf(get_sub_queries(query))

\* ------------------------------------------------------------------------
\* The queries the model runs
\* ------------------------------------------------------------------------

\* decimal text of a natural number
RECURSIVE ToDec(_)
ToDec(n) ==
  IF n < 10 THEN <<Digits[n + 1]>> ELSE ToDec(n \div 10) \o <<Digits[(n % 10) + 1]>>

\* the small numbers every numeric field ranges over
MaxNum == 2

\* the largest number of sub-queries of a query
MaxSubs == 1

\* chapter numbers next to the chapter counts of the books of Heads (5,
\* 150, 1), next to the u8 limit and of four digits
ChapterNums == (0..MaxNum) \cup {5, 6, 119, 151, 256, 1000}

\* verse numbers next to the verse counts (1 John: 10, 29, 24, 21, 21;
\* Psalm 119: 176), next to the u8 limit and of four digits
VerseNums == (0..MaxNum) \cup {10, 29, 30, 176, 177, 256, 1000}

\* the bounds of the ranges
RangeStarts == (0..MaxNum) \cup {29, 177, 256}
RangeEnds == (0..MaxNum) \cup {10, 30, 256}

\* the text in front of the residue
Heads == {
  <<"1", " ", "J", "o", "h", "n">>,
  <<"i", "i", "i", " ", "j", "o">>,
  <<"P", "s", "a", "l", "m", "s">>,
  <<"J", "U", "D", "E">>,
  <<"2", "n", "d", "s">>,
  <<"j", "n">>,
  <<"4", " ", "J", "o", "h", "n">>,
  <<>> }

\* the 66 titles, written as the canon has them
Titles == {book_matcher[i].key : i \in 1..Len(book_matcher)}

\* the heads the verse ranges are asked of
RangeHeads == {
  <<"1", " ", "J", "o", "h", "n">>,
  <<"P", "s", "a", "l", "m", "s">>,
  <<"2", "n", "d", "s">>,
  <<"i", "i", "i", " ", "j", "o">> }

\* the pieces a sub-query can be: a verse number (past the end of 1 John 1,
\* inside 1 John 2) and a number that does not fit in 8 bits
SubTokens == { <<"1", "1">>, <<"3", "0", "0">> }

SubLists == UNION {[1..n -> SubTokens] : n \in 0..MaxSubs}

\* A query is composed of a head, a residue of one of the four shapes
\* (nothing, c, c:s, c:s-e) and the sub-queries; the numbers a shape does
\* not print are 0.
Inputs ==
  { [head |-> h, shape |-> "book", c |-> 0, s |-> 0, e |-> 0, subs |-> subs] :
      h \in Heads \cup Titles, subs \in SubLists }
  \cup
  { [head |-> h, shape |-> "chapter", c |-> c, s |-> 0, e |-> 0, subs |-> <<>>] :
      h \in Titles, c \in ChapterNums }
  \cup
  { [head |-> h, shape |-> "chapter", c |-> c, s |-> 0, e |-> 0, subs |-> subs] :
      h \in Heads, c \in ChapterNums, subs \in SubLists }
  \cup
  { [head |-> h, shape |-> "verse", c |-> c, s |-> s, e |-> 0, subs |-> <<>>] :
      h \in Heads, c \in ChapterNums, s \in VerseNums }
  \cup
  { [head |-> h, shape |-> "verse", c |-> c, s |-> s, e |-> 0, subs |-> subs] :
      h \in { <<"1", " ", "J", "o", "h", "n">>, <<"P", "s", "a", "l", "m", "s">> },
      c \in ChapterNums, s \in VerseNums, subs \in SubLists }
  \cup
  { [head |-> h, shape |-> "range", c |-> c, s |-> s, e |-> e, subs |-> <<>>] :
      h \in RangeHeads, c \in ChapterNums, s \in RangeStarts, e \in RangeEnds }
  \cup
  { [head |-> <<"1", " ", "J", "o", "h", "n">>, shape |-> "range",
     c |-> c, s |-> s, e |-> e, subs |-> subs] :
      c \in ChapterNums, s \in RangeStarts, e \in RangeEnds, subs \in SubLists }

\* the sub-queries of the queries that fold them: a verse the head has not
\* (3), one it has (2), a '+' sign, leading zeros, a range, a 'c:v' form,
\* nothing, 0, a verse past the end of 1 John 1 and a number over 255
FoldTokens == {
  <<"3">>, <<"2">>, <<"+", "4">>, <<"0", "0", "7">>, <<"5", "-", "7">>,
  <<"1", ":", "9">>, <<>>, <<"0">>, <<"1", "1">>, <<"3", "0", "0">> }

FoldLists == UNION {[1..n -> FoldTokens] : n \in 0..MaxSubs}

\* 1 John 1:2, 1 John 1:2-30 (cut at verse 10) and 1 John 151 (chapter 1)
\* with the sub-queries to fold
FoldInputs ==
  { [head |-> <<"1", " ", "J", "o", "h", "n">>, shape |-> sh.shape,
     c |-> sh.c, s |-> sh.s, e |-> sh.e, subs |-> subs] :
      sh \in { [shape |-> "verse", c |-> 1, s |-> 2, e |-> 0],
               [shape |-> "range", c |-> 1, s |-> 2, e |-> 30],
               [shape |-> "chapter", c |-> 151, s |-> 0, e |-> 0] },
      subs \in FoldLists }

\* the longest run of spaces put between two tokens
MaxGap == 2

\* n spaces
Sp(n) == [i \in 1..n |-> " "]

\* the books of the spaced queries: ordinal, name, and whether the ordinal
\* is a Roman numeral (which needs whitespace after it)
SpacedBooks == {
  [ord |-> <<"1">>, name |-> <<"J", "o", "h", "n">>, roman |-> FALSE],
  [ord |-> <<"i", "i", "i">>, name |-> <<"j", "o">>, roman |-> TRUE],
  [ord |-> <<"S", "e", "c", "o", "n", "d">>, name |-> <<"s">>, roman |-> FALSE],
  [ord |-> <<>>, name |-> <<"P", "s", "a", "l", "m", "s">>, roman |-> FALSE] }

\* the places of a query where spaces are put or taken away
SlotsOf(kind) ==
  CASE kind = "book" -> {"lead", "ord", "comma_l", "comma_r", "end", "all"}
    [] kind = "chapter" -> {"ord", "chapter", "all"}
    [] kind = "verse" -> {"chapter", "colon_l", "colon_r", "all"}
    [] kind = "range" -> {"lead", "ord", "chapter", "colon_l", "colon_r",
                          "dash_l", "dash_r", "comma_l", "comma_r", "end", "all"}

\* text after the last number of the residue
Trails == { <<>>, <<"a", "b", "c">>, <<" ", "9">> }

\* A spaced query is '<ord> <name> 1:2-3, 5' cut down to its kind, with
\* gap spaces at one slot (or at all of them) and the usual spacing at the
\* others, and with a trail after the last number.
SpacedInput(b, k, sl, g, t) ==
  [head |-> (IF b.ord = <<>> THEN <<>> ELSE b.ord \o <<" ">>) \o b.name,
   shape |-> "spaced", c |-> 1, s |-> 2, e |-> 3, subs |-> << <<"5">> >>,
   kind |-> k, ord |-> b.ord, name |-> b.name, roman |-> b.roman,
   slot |-> sl, gap |-> g, trail |-> t]

SpacedInputs ==
  UNION { { SpacedInput(b, k, sl, g, <<>>) :
              b \in SpacedBooks, sl \in SlotsOf(k), g \in 0..MaxGap } :
          k \in {"book", "chapter", "verse", "range"} }
  \cup
  { SpacedInput(b, k, "none", 0, t) :
      b \in SpacedBooks, k \in {"chapter", "verse", "range"}, t \in Trails }

\* the number of spaces at a slot of a spaced query: gap at the slot that
\* is varied (a Roman ordinal keeps one space), usual at the others
GapAt(in, slot, usual) ==
  IF in.slot = slot \/ in.slot = "all"
  THEN IF slot = "ord" /\ in.roman /\ in.gap = 0 THEN Sp(1) ELSE Sp(in.gap)
  ELSE Sp(usual)

\* a spaced query from its first token to the end of its head piece
SpacedCore(in) ==
  (IF in.ord = <<>> THEN <<>> ELSE in.ord \o GapAt(in, "ord", 1))
    \o in.name
    \o (IF in.kind = "book" THEN <<>>
        ELSE GapAt(in, "chapter", 1) \o ToDec(in.c))
    \o (IF in.kind \in {"verse", "range"}
        THEN GapAt(in, "colon_l", 0) \o <<":">> \o GapAt(in, "colon_r", 0)
               \o ToDec(in.s)
        ELSE <<>>)
    \o (IF in.kind = "range"
        THEN GapAt(in, "dash_l", 0) \o <<"-">> \o GapAt(in, "dash_r", 0)
               \o ToDec(in.e)
        ELSE <<>>)
    \o in.trail

SpacedQuery(in) ==
  GapAt(in, "lead", 0)
    \o SpacedCore(in)
    \o GapAt(in, "comma_l", 0) \o <<",">> \o GapAt(in, "comma_r", 1)
    \o in.subs[1]
    \o GapAt(in, "end", 0)

\* queries of the examples and of the tests: iii jn, and 1 John 1:2 with
\* the sub-queries of search.rs and with pieces that are not numbers
ExampleInputs ==
  { [head |-> <<"i", "i", "i", " ", "j", "n">>, shape |-> "book",
     c |-> 0, s |-> 0, e |-> 0, subs |-> <<>>] }
  \cup
  { [head |-> <<"1", " ", "J", "o", "h", "n">>, shape |-> "verse",
     c |-> 1, s |-> 2, e |-> 0, subs |-> subs] :
      subs \in { << <<"3">>, <<"5">>, <<"7">>, <<"9">>, <<"1", "1">>,
                    <<"1", "3">>, <<"1", "5">> >>,
                 << <<"9">>, <<>>, <<"5", "-", "7">>, <<"3">>, <<"9">> >> } }

\* queries written out in full: the range that goes on into another
\* chapter, John with a character after it, a head whose text comes again
\* in the residue, and John with a number in front of it
Texts == {
  <<"S", "o", "n", "g", " ", "o", "f", " ", "S", "o", "l", "o", "m", "o", "n", " ", "2", ":", "3", "-", "5", ":", "6">>,
  <<"J", "o", "h", "n", "-">>,
  <<"J", "o", "h", "n", ":">>,
  <<"J", "o", "h", "n", "_">>,
  <<"J", "o", "h", "n", " ", "-", "3">>,
  <<"s", ":", "2", "s", ":", "3">>,
  <<"5", " ", "J", "o", "h", "n", " ", "3">>,
  <<"1", "2", "3", " ", "J", "o", "h", "n", " ", "2">> }

TextInputs ==
  { [head |-> t, shape |-> "text", c |-> 0, s |-> 0, e |-> 0, subs |-> <<>>] :
      t \in Texts }

\* every query the model runs
AllInputs ==
  Inputs \cup FoldInputs \cup SpacedInputs \cup ExampleInputs \cup TextInputs

ResidueOf(in) ==
  CASE in.shape \in {"book", "text"} -> <<>>
    [] in.shape = "chapter" -> <<" ">> \o ToDec(in.c)
    [] in.shape = "verse" -> <<" ">> \o ToDec(in.c) \o <<":">> \o ToDec(in.s)
    [] in.shape = "range" ->
         <<" ">> \o ToDec(in.c) \o <<":">> \o ToDec(in.s) \o <<"-">> \o ToDec(in.e)

QueryOf(in) ==
  IF in.shape = "spaced" THEN SpacedQuery(in)
  ELSE in.head \o ResidueOf(in)
         \o Concat([i \in 1..Len(in.subs) |-> <<",", " ">> \o in.subs[i]])

\* ------------------------------------------------------------------------
\* search(query) as a state machine
\* ------------------------------------------------------------------------

VARIABLES
  input,        \* how the query was composed
  query,        \* the argument of search
  pc,           \* the function that runs next
  main,         \* the head piece of the query, an Option
  sub,          \* the other pieces
  parsed,       \* what get_search_params returned, an Option
  params,       \* the BookParams of the handler that runs next
  main_result,  \* the BibleSearch of the head, an Option
  result        \* what search returned: None while it runs

vars == <<input, query, pc, main, sub, parsed, params, main_result, result>>

Init ==
  /\ input \in AllInputs
  /\ query = QueryOf(input)
  /\ pc = "search"
  /\ main = None
  /\ sub = <<>>
  /\ parsed = None
  /\ params = None
  /\ main_result = None
  /\ result = None

\* search, up to the call of process_query
Search ==
  /\ pc = "search"
  /\ LET split == get_sub_queries(query)
     IN  /\ main' = split.head
         /\ sub' = split.tail
         /\ IF IsSome(split.head)
            THEN pc' = "process_query" /\ result' = result
            ELSE pc' = "done" /\ result' = Err
  /\ UNCHANGED <<input, query, parsed, params, main_result>>

\* process_query, up to the call of the handler
ProcessQuery ==
  /\ pc = "process_query"
  /\ \E book_search_params \in get_search_params(main.v) :
       /\ parsed' = book_search_params
       /\ IF IsSome(book_search_params)
          THEN /\ params' = book_search_params.v
               /\ pc' = HandlerOf(book_search_params.v.search_type)
               /\ result' = result
          ELSE /\ params' = params
               /\ pc' = "done"
               /\ result' = IF book_search_params = Panic THEN Panic ELSE Err
  /\ UNCHANGED <<input, query, main, sub, main_result>>

\* what a handler leaves: the next handler, the BibleSearch of the head,
\* or the panic
Handle(outcome) ==
  /\ CASE outcome.tag = "Call" ->
            /\ params' = outcome.params
            /\ pc' = outcome.fn
            /\ UNCHANGED <<main_result, result>>
       [] outcome.tag = "Ok" ->
            /\ main_result' = Some(outcome)
            /\ pc' = "join"
            /\ UNCHANGED <<params, result>>
       [] outcome.tag = "Panic" ->
            /\ result' = Panic
            /\ pc' = "done"
            /\ UNCHANGED <<params, main_result>>
  /\ UNCHANGED <<input, query, main, sub, parsed>>

BookToBibleSearch == pc = "book" /\ Handle(book_to_bible_search(params))

ChapterToBibleSearch == pc = "chapter" /\ Handle(chapter_to_bible_search(params))

VerseToBibleSearch == pc = "verse" /\ Handle(verse_to_bible_search(params))

VerseRangeToBibleSearch ==
  pc = "verse_range" /\ Handle(verse_range_to_bible_search(params))

\* search, after process_query returned Ok: the sub-queries are processed
\* and joined with the verses of the head
Join ==
  /\ pc = "join"
  /\ result' = combined_search(main_result.v, sub)
  /\ pc' = "done"
  /\ UNCHANGED <<input, query, main, sub, parsed, params, main_result>>

Next ==
  \/ Search
  \/ ProcessQuery
  \/ BookToBibleSearch
  \/ ChapterToBibleSearch
  \/ VerseToBibleSearch
  \/ VerseRangeToBibleSearch
  \/ Join

Spec == Init /\ [][Next]_vars


\* ------------------------------------------------------------------------
\* Properties
\* ------------------------------------------------------------------------

CanonicalTitles == DOMAIN chapter_counts

chapter_count(title) == chapter_counts[title]

verse_count(title, chapter) == verse_counts[title][chapter]

\* chapter c of a book with all of its verses
WholeChapter(title, c) == BibleSearch(title, c, 1..verse_count(title, c))

Returned == pc = "done"

\* the head was given a title, and what the parser made of its residue
ParsedAs(search_types) ==
  IsSome(parsed) /\ parsed.v.search_type \in search_types

ValidChapter(title, c) == title \in CanonicalTitles /\ c \in 1..chapter_count(title)

\* C1: search ends with a Selection or with the error for every query, it
\* never panics, also when a bound of a verse range does not fit in 8 bits.
C1_NeverPanics == Returned => result.tag \in {"Ok", "Err"}

\* C2: search returns the error exactly when the head piece is empty or
\* get_title finds no book in it; with a book found, a Selection is
\* returned whatever else is wrong with the query.
C2_ErrorIffNoBook ==
  Returned =>
    LET no_book == ~IsSome(main) \/ get_title(main.v) = {None}
    IN  /\ result = Err <=> no_book
        /\ ~no_book => result.tag = "Ok"

\* C3: the chapter of every Selection search returns is a chapter of its
\* book, 1 <= chapter <= chapter_count(title).
C3_ChapterBound ==
  result.tag = "Ok" =>
    /\ result.title \in CanonicalTitles
    /\ 1 <= result.chapter
    /\ result.chapter <= chapter_count(result.title)

\* a Selection returned for a head whose chapter does not exist
C3_Witness ==
  /\ result.tag = "Ok"
  /\ ParsedAs({"Chapter", "Verse", "VerseRange"})
  /\ parsed.v.chapter = Some(151)
  /\ result.chapter = 1

\* C4: every verse of every Selection search returns is a verse of its
\* chapter, 1 <= v <= verse_count(title, chapter).
C4_VerseBound ==
  result.tag = "Ok" =>
    \A v \in result.verses :
      1 <= v /\ v <= verse_count(result.title, result.chapter)

\* a Selection of a range that was cut at the end of the chapter, with a
\* sub-query past the end of the chapter that was dropped
C4_Witness ==
  /\ result.tag = "Ok"
  /\ ParsedAs({"VerseRange"})
  /\ IsSome(parsed.v.verse_end)
  /\ parsed.v.verse_end.v > verse_count(result.title, result.chapter)
  /\ sub = << <<"1", "1">> >>
  /\ verse_count(result.title, result.chapter) < 11
  /\ result.verses = main_result.v.verses

\* C5: every Selection search returns has at least one verse.
C5_NonEmpty == result.tag = "Ok" => result.verses # {}

\* a Selection returned for a range that has no verse of its chapter
C5_Witness ==
  /\ result.tag = "Ok"
  /\ ParsedAs({"VerseRange"})
  /\ parsed.v.chapter = Some(result.chapter)
  /\ IsSome(parsed.v.verse_start) /\ IsSome(parsed.v.verse_end)
  /\ \/ parsed.v.verse_start.v > parsed.v.verse_end.v
     \/ parsed.v.verse_start.v > verse_count(result.title, result.chapter)

\* C6: the title get_search_params hands to the resolver, and the title of
\* every Selection search returns, is one of the 66 canonical titles
\* character for character, however the book was written in the query.
C6_CanonicalTitle ==
  /\ IsSome(parsed) => parsed.v.title \in CanonicalTitles
  /\ result.tag = "Ok" => result.title \in CanonicalTitles /\ result.title = parsed.v.title

\* a Selection returned for a book written in another case, with an
\* ordinal word and abbreviated
C6_Witness ==
  /\ result.tag = "Ok"
  /\ input.head = <<"i", "i", "i", " ", "j", "o">>
  /\ result.title = <<"3", " ", "J", "o", "h", "n">>

\* C7: a head parsed as Book yields chapter 1 of the book with all of its
\* verses, and so does the head that names chapter 1.
C7_BookIsChapterOne ==
  (Returned /\ (ParsedAs({"Book"})
                  \/ (ParsedAs({"Chapter"}) /\ parsed.v.chapter = Some(1)))) =>
    /\ main_result = Some(WholeChapter(parsed.v.title, 1))
    /\ sub = <<>> => result = WholeChapter(parsed.v.title, 1)

\* search returned for a head parsed as Book
C7_Witness ==
  /\ Returned
  /\ ParsedAs({"Book"})
  /\ result.tag = "Ok"
  /\ sub = <<>>

\* C8: a head parsed as Chapter, Verse or VerseRange whose chapter is not a
\* chapter of the book yields what Book yields, chapter 1 with all of its
\* verses, whatever its verse numbers.
C8_BadChapterIsBook ==
  (/\ Returned
   /\ ParsedAs({"Chapter", "Verse", "VerseRange"})
   /\ ~(IsSome(parsed.v.chapter)
          /\ ValidChapter(parsed.v.title, parsed.v.chapter.v))) =>
    /\ main_result = Some(WholeChapter(parsed.v.title, 1))
    /\ sub = <<>> => result = WholeChapter(parsed.v.title, 1)

\* search returned for a verse range in chapter 0 and for one in a chapter
\* past the last
C8_Witness ==
  /\ Returned
  /\ ParsedAs({"VerseRange"})
  /\ parsed.v.chapter \in {Some(0), Some(151)}
  /\ result.tag = "Ok"

\* the heads '<book> <c>' and '<book> <c>:<v>' with the book written as
\* its canonical title and c one of its chapters
IsChapterQuery == input.shape = "chapter" /\ ValidChapter(input.head, input.c)
IsVerseQuery == input.shape = "verse" /\ ValidChapter(input.head, input.c)

\* the number the first three digits of v make (v, when it has no more)
RECURSIVE FirstThreeDigits(_)
FirstThreeDigits(v) == IF v < 1000 THEN v ELSE FirstThreeDigits(v \div 10)

\* C9 as claimed: '<book> <c>:<v>' yields chapter c with all of its
\* verses, as '<book> <c>' does, for every v that is not a verse of the
\* chapter, and the verse v alone when it is.
C9_AsClaimed ==
  /\ (Returned /\ IsChapterQuery) =>
        main_result = Some(WholeChapter(input.head, input.c))
  /\ (Returned /\ IsVerseQuery) =>
        main_result =
          IF input.s \in 1..verse_count(input.head, input.c)
          THEN Some(BibleSearch(input.head, input.c, {input.s}))
          ELSE Some(WholeChapter(input.head, input.c))

\* C9: '<book> <c>:<v>' is decided by the first three digits of v, read as
\* a number n (v itself when it has at most three digits): when n is not
\* a verse of the chapter, the result is chapter c with all of its verses,
\* as for '<book> <c>'; when it is, the result is the verse n alone.
C9_DegradationMonotonic ==
  /\ (Returned /\ IsChapterQuery) =>
        main_result = Some(WholeChapter(input.head, input.c))
  /\ (Returned /\ IsVerseQuery) =>
        main_result =
          IF FirstThreeDigits(input.s) \in 1..verse_count(input.head, input.c)
          THEN Some(BibleSearch(input.head, input.c, {FirstThreeDigits(input.s)}))
          ELSE Some(WholeChapter(input.head, input.c))

\* search returned the whole chapter for a verse the chapter does not have
C9_Witness ==
  /\ Returned
  /\ IsVerseQuery
  /\ input.s > verse_count(input.head, input.c)
  /\ result.tag = "Ok"
  /\ main_result = Some(WholeChapter(input.head, input.c))

\* C10: a VerseRange{title, c, s, e} with c a chapter of the book yields
\* the verses of s..e that chapter c has, when there are any (the range is
\* cut at the first and at the last verse of the chapter), and chapter c
\* with all of its verses when there are none, as when s > e.
C10_RangeClamped ==
  (/\ Returned
   /\ ParsedAs({"VerseRange"})
   /\ IsSome(parsed.v.chapter) /\ ValidChapter(parsed.v.title, parsed.v.chapter.v)
   /\ IsSome(parsed.v.verse_start) /\ IsSome(parsed.v.verse_end)) =>
    LET title == parsed.v.title
        c == parsed.v.chapter.v
        range == (parsed.v.verse_start.v .. parsed.v.verse_end.v)
                   \cap (1..verse_count(title, c))
    IN  main_result = IF range # {} THEN Some(BibleSearch(title, c, range))
                      ELSE Some(WholeChapter(title, c))

\* search returned a range cut at the last verse of the chapter
C10_Witness ==
  /\ Returned
  /\ ParsedAs({"VerseRange"})
  /\ result.tag = "Ok"
  /\ parsed.v.verse_start = Some(2)
  /\ parsed.v.verse_end = Some(30)
  /\ main_result.v.verses = 2..10

\* a run of digits without its leading zeros (the last digit stays)
RECURSIVE StripZeros(_)
StripZeros(ds) ==
  IF Len(ds) > 1 /\ ds[1] = "0" THEN StripZeros(Tail(ds)) ELSE ds

\* the piece is a text that reads as the unsigned number v: decimal
\* digits, leading zeros and one leading '+' allowed
IsNumeralOf(piece, v) ==
  LET body == IF piece # <<>> /\ piece[1] = "+" THEN Tail(piece) ELSE piece
  IN  body # <<>> /\ StripZeros(body) = ToDec(v)

\* C11: the verses of the Selection search returns are the verses of the
\* primary selection and exactly the numbers v, 1 <= v <= verse_count(title,
\* primary chapter), that some sub-query piece reads as; every other piece
\* is dropped, and a piece whose verse the set already has changes nothing.
C11_SubQueryFolding ==
  (Returned /\ result.tag = "Ok") =>
    result.verses =
      main_result.v.verses
        \cup {v \in 1..verse_count(main_result.v.title, main_result.v.chapter) :
                \E i \in 1..Len(sub) : IsNumeralOf(sub[i], v)}

\* search returned the verse of the head and the verse of its sub-query
C11_Witness ==
  /\ Returned
  /\ result.tag = "Ok"
  /\ sub = << <<"3">> >>
  /\ main_result.v.verses = {2}
  /\ result.verses = {2, 3}

\* C12: the Selection search returns for '<head>, <subs>' has the title and
\* the chapter of the Selection of '<head>', which is the chapter the head
\* degraded to, and every verse of it.
C12_FoldKeepsPrimary ==
  (Returned /\ result.tag = "Ok") =>
    /\ IsSome(main_result)
    /\ main_result.v \in search(main.v)
    /\ result.title = main_result.v.title
    /\ result.chapter = main_result.v.chapter
    /\ main_result.v.verses \subseteq result.verses

\* search returned for a head whose chapter does not exist and a sub-query
\* that is a verse of the chapter typed nowhere
C12_Witness ==
  /\ Returned
  /\ result.tag = "Ok"
  /\ ParsedAs({"Chapter"})
  /\ parsed.v.chapter = Some(151)
  /\ sub = << <<"3">> >>
  /\ result.chapter = 1
  /\ 3 \in result.verses

\* the head is one the book regex matches from its first character on, so
\* that the residue is the text the query has after the head
HeadFromStart == input.head # <<"4", " ", "J", "o", "h", "n">>

\* the queries '<head> c', '<head> c:s' and '<head> c:s-e' of numbers
\* of at most three digits
IsShapedQuery ==
  /\ input.shape \in {"chapter", "verse", "range"}
  /\ input.c < 1000 /\ input.s < 1000 /\ input.e < 1000
  /\ HeadFromStart

FitsU8(n) == n <= U8Max

\* the BookParams of a search type with its numbers
ParamsOf(search_type, title, c, s, e) ==
  [search_type |-> search_type, title |-> title,
   chapter |-> IF search_type = "Book" THEN None ELSE Some(c),
   verse_start |-> IF search_type \in {"Verse", "VerseRange"} THEN Some(s) ELSE None,
   verse_end |-> IF search_type = "VerseRange" THEN Some(e) ELSE None]

\* the shape a residue falls through to when a number does not fit
FallThrough(shape, c, s, e) ==
  IF shape = "range" /\ FitsU8(c) /\ FitsU8(s) /\ FitsU8(e) THEN "VerseRange"
  ELSE IF shape \in {"verse", "range"} /\ FitsU8(c) /\ FitsU8(s) THEN "Verse"
  ELSE IF FitsU8(c) THEN "Chapter"
  ELSE "Book"

\* C13: when the text of a numeric field of a shape does not fit in 8 bits
\* the shape does not match and the parser yields the next shape in the
\* order range, verse, chapter, book; every field of the shape it yields
\* is parsed.
C13_NumericFallThrough ==
  (IsSome(parsed) /\ IsShapedQuery) =>
    parsed.v = ParamsOf(FallThrough(input.shape, input.c, input.s, input.e),
                        parsed.v.title, input.c, input.s, input.e)

\* a numeric field a variant has to carry: present, >= 1 and <= 255
IsField(o) == IsSome(o) /\ o.v >= 1 /\ o.v <= U8Max

\* C14: the BookParams the parser returns carries the numeric fields of
\* its variant, each present, >= 1 and <= 255, and no other field.
C14_FieldsOfVariant ==
  IsSome(parsed) =>
    LET p == parsed.v
    IN  /\ p.search_type = "Book" =>
             p.chapter = None /\ p.verse_start = None /\ p.verse_end = None
        /\ p.search_type = "Chapter" =>
             IsField(p.chapter) /\ p.verse_start = None /\ p.verse_end = None
        /\ p.search_type = "Verse" =>
             IsField(p.chapter) /\ IsField(p.verse_start) /\ p.verse_end = None
        /\ p.search_type = "VerseRange" =>
             IsField(p.chapter) /\ IsField(p.verse_start) /\ IsField(p.verse_end)

\* the search type of a kind of spaced query
TypeOfKind(kind) ==
  CASE kind = "book" -> "Book" [] kind = "chapter" -> "Chapter"
    [] kind = "verse" -> "Verse" [] kind = "range" -> "VerseRange"

\* C15: the residue 'c:s-e' parses as VerseRange{c, s, e}, 'c:v' as
\* Verse{c, v}, 'c' as Chapter{c} and the empty residue as Book, for
\* numbers that fit in 8 bits, whatever the whitespace around ':' and '-'
\* and whatever follows the last number.
C15_ShapeOrder ==
  /\ (IsSome(parsed) /\ IsShapedQuery
        /\ FitsU8(input.c) /\ FitsU8(input.s) /\ FitsU8(input.e)) =>
       parsed.v = ParamsOf(FallThrough(input.shape, input.c, input.s, input.e),
                           parsed.v.title, input.c, input.s, input.e)
  /\ (IsSome(parsed) /\ input.shape = "book" /\ HeadFromStart) =>
       parsed.v = ParamsOf("Book", parsed.v.title, 0, 0, 0)
  /\ (IsSome(parsed) /\ input.shape = "spaced") =>
       parsed.v = ParamsOf(TypeOfKind(input.kind), parsed.v.title,
                           input.c, input.s, input.e)

\* a verse range parsed from a residue with spaces around ':' and '-',
\* and one parsed from a residue with text after the last number
C15_Witness ==
  /\ ParsedAs({"VerseRange"})
  /\ input.shape = "spaced"
  /\ \/ input.slot = "all" /\ input.gap = 2
     \/ input.trail = <<"a", "b", "c">>

\* the head piece and the other pieces the query was composed of
ExpectedMain(in) ==
  IF in.shape = "spaced" THEN Some(SpacedCore(in))
  ELSE IF in.head # <<>> THEN Some(in.head \o ResidueOf(in))
  ELSE IF ResidueOf(in) # <<>> THEN Some(Tail(ResidueOf(in)))
  ELSE None

\* C16: get_sub_queries returns the first piece of the trimmed query,
\* trimmed, or None when it is empty, and the later pieces in their order,
\* one per comma, each trimmed, the empty ones too.
C16_SplitSubQueries ==
  pc # "search" =>
    /\ main = ExpectedMain(input)
    /\ sub = input.subs

\* get_sub_queries has split a query with spaces on both sides of the
\* comma, and one with an empty head piece and a sub-query
C16_Witness ==
  /\ pc # "search"
  /\ \/ input.shape = "spaced" /\ input.slot = "all" /\ input.gap = 2
     \/ main = None /\ sub # <<>>

\* the upper-case letter of a lower-case one
Upper(c) ==
  CASE c = "a" -> "A" [] c = "b" -> "B" [] c = "c" -> "C" [] c = "d" -> "D"
    [] c = "e" -> "E" [] c = "f" -> "F" [] c = "g" -> "G" [] c = "h" -> "H"
    [] c = "i" -> "I" [] c = "j" -> "J" [] c = "k" -> "K" [] c = "l" -> "L"
    [] c = "m" -> "M" [] c = "n" -> "N" [] c = "o" -> "O" [] c = "p" -> "P"
    [] c = "q" -> "Q" [] c = "r" -> "R" [] c = "s" -> "S" [] c = "t" -> "T"
    [] c = "u" -> "U" [] c = "v" -> "V" [] c = "w" -> "W" [] c = "x" -> "X"
    [] c = "y" -> "Y" [] c = "z" -> "Z" [] OTHER -> c

\* the letters of q in lower case
LowerCased(q) == [i \in 1..Len(q) |-> Lower(q[i])]

\* the letters of q in upper case
UpperCased(q) == [i \in 1..Len(q) |-> Upper(LowerCased(q)[i])]

\* the letters of q in upper and lower case by turns
MixedCased(q) ==
  [i \in 1..Len(q) |-> IF i % 2 = 1 THEN UpperCased(q)[i] ELSE LowerCased(q)[i]]

\* the queries the re-casings are tried on
IsRecasedQuery == input.shape \in {"book", "spaced"}

UsualQuery(in) == SpacedQuery([in EXCEPT !.slot = "none", !.gap = 0])

ThreeJohnBook ==
  [tag |-> "Ok", title |-> <<"3", " ", "J", "o", "h", "n">>, chapter |-> 1,
   verses |-> 1..14]

IsQuery(text) == input.shape = "book" /\ input.subs = <<>> /\ input.head = text

title_tests == <<
  [expected |-> <<"1", " ", "C", "h", "r", "o", "n", "i", "c", "l", "e", "s">>,
   book_title |-> <<"c", "h", "r", "o", "n", "i", "c", "l", "e", "s">>,
   min_title_chars |-> 2,
   num_variations |-> << <<"o", "n", "e">>, <<"f", "s", "t">>, <<"f", "i", "r", "s", "t">>, <<"1">>, <<"1", "s", "t">>, <<"i", " ">> >>],
  [expected |-> <<"1", " ", "C", "o", "r", "i", "n", "t", "h", "i", "a", "n", "s">>,
   book_title |-> <<"c", "o", "r", "i", "n", "t", "h", "i", "a", "n", "s">>,
   min_title_chars |-> 2,
   num_variations |-> << <<"o", "n", "e">>, <<"f", "s", "t">>, <<"f", "i", "r", "s", "t">>, <<"1">>, <<"1", "s", "t">>, <<"i", " ">> >>],
  [expected |-> <<"1", " ", "J", "o", "h", "n">>,
   book_title |-> <<"j", "o", "h", "n">>,
   min_title_chars |-> 2,
   num_variations |-> << <<"o", "n", "e">>, <<"f", "s", "t">>, <<"f", "i", "r", "s", "t">>, <<"1">>, <<"1", "s", "t">>, <<"i", " ">> >>],
  [expected |-> <<"1", " ", "K", "i", "n", "g", "s">>,
   book_title |-> <<"k", "i", "n", "g", "s">>,
   min_title_chars |-> 1,
   num_variations |-> << <<"o", "n", "e">>, <<"f", "s", "t">>, <<"f", "i", "r", "s", "t">>, <<"1">>, <<"1", "s", "t">>, <<"i", " ">> >>],
  [expected |-> <<"1", " ", "P", "e", "t", "e", "r">>,
   book_title |-> <<"p", "e", "t", "e", "r">>,
   min_title_chars |-> 1,
   num_variations |-> << <<"o", "n", "e">>, <<"f", "s", "t">>, <<"f", "i", "r", "s", "t">>, <<"1">>, <<"1", "s", "t">>, <<"i", " ">> >>],
  [expected |-> <<"1", " ", "S", "a", "m", "u", "e", "l">>,
   book_title |-> <<"s", "a", "m", "u", "e", "l">>,
   min_title_chars |-> 3,
   num_variations |-> << <<"o", "n", "e">>, <<"f", "i", "r", "s", "t">>, <<"1">>, <<"1", "s", "t">>, <<"i", " ">> >>],
  [expected |-> <<"1", " ", "T", "h", "e", "s", "s", "a", "l", "o", "n", "i", "a", "n", "s">>,
   book_title |-> <<"t", "h", "e", "s", "s", "a", "l", "o", "n", "i", "a", "n", "s">>,
   min_title_chars |-> 2,
   num_variations |-> << <<"o", "n", "e">>, <<"f", "s", "t">>, <<"f", "i", "r", "s", "t">>, <<"1">>, <<"1", "s", "t">>, <<"i", " ">> >>],
  [expected |-> <<"1", " ", "T", "i", "m", "o", "t", "h", "y">>,
   book_title |-> <<"t", "i", "m", "o", "t", "h", "y">>,
   min_title_chars |-> 2,
   num_variations |-> << <<"o", "n", "e">>, <<"f", "s", "t">>, <<"f", "i", "r", "s", "t">>, <<"1">>, <<"1", "s", "t">>, <<"i", " ">> >>],
  [expected |-> <<"2", " ", "C", "h", "r", "o", "n", "i", "c", "l", "e", "s">>,
   book_title |-> <<"c", "h", "r", "o", "n", "i", "c", "l", "e", "s">>,
   min_title_chars |-> 2,
   num_variations |-> << <<"t", "w", "o">>, <<"s", "e", "c">>, <<"s", "e", "c", "o">>, <<"s", "e", "c", "o", "n">>, <<"s", "e", "c", "o", "n", "d">>, <<"2">>, <<"2", "n", "d">>, <<"i", "i", " ">> >>],
  [expected |-> <<"2", " ", "C", "o", "r", "i", "n", "t", "h", "i", "a", "n", "s">>,
   book_title |-> <<"c", "o", "r", "i", "n", "t", "h", "i", "a", "n", "s">>,
   min_title_chars |-> 2,
   num_variations |-> << <<"t", "w", "o">>, <<"s", "e", "c">>, <<"s", "e", "c", "o">>, <<"s", "e", "c", "o", "n">>, <<"s", "e", "c", "o", "n", "d">>, <<"2">>, <<"2", "n", "d">>, <<"i", "i", " ">> >>],
  [expected |-> <<"2", " ", "J", "o", "h", "n">>,
   book_title |-> <<"j", "o", "h", "n">>,
   min_title_chars |-> 1,
   num_variations |-> << <<"t", "w", "o">>, <<"s", "e", "c">>, <<"s", "e", "c", "o">>, <<"s", "e", "c", "o", "n">>, <<"s", "e", "c", "o", "n", "d">>, <<"2">>, <<"2", "n", "d">>, <<"i", "i", " ">> >>],
  [expected |-> <<"2", " ", "K", "i", "n", "g", "s">>,
   book_title |-> <<"k", "i", "n", "g", "s">>,
   min_title_chars |-> 1,
   num_variations |-> << <<"t", "w", "o">>, <<"s", "e", "c">>, <<"s", "e", "c", "o">>, <<"s", "e", "c", "o", "n">>, <<"s", "e", "c", "o", "n", "d">>, <<"2">>, <<"2", "n", "d">>, <<"i", "i", " ">> >>],
  [expected |-> <<"2", " ", "P", "e", "t", "e", "r">>,
   book_title |-> <<"p", "e", "t", "e", "r">>,
   min_title_chars |-> 1,
   num_variations |-> << <<"t", "w", "o">>, <<"s", "e", "c">>, <<"s", "e", "c", "o">>, <<"s", "e", "c", "o", "n">>, <<"s", "e", "c", "o", "n", "d">>, <<"2">>, <<"2", "n", "d">>, <<"i", "i", " ">> >>],
  [expected |-> <<"2", " ", "S", "a", "m", "u", "e", "l">>,
   book_title |-> <<"s", "a", "m", "u", "e", "l">>,
   min_title_chars |-> 1,
   num_variations |-> << <<"t", "w", "o">>, <<"s", "e", "c">>, <<"s", "e", "c", "o">>, <<"s", "e", "c", "o", "n">>, <<"s", "e", "c", "o", "n", "d">>, <<"2">>, <<"2", "n", "d">>, <<"i", "i", " ">> >>],
  [expected |-> <<"2", " ", "T", "h", "e", "s", "s", "a", "l", "o", "n", "i", "a", "n", "s">>,
   book_title |-> <<"t", "h", "e", "s", "s", "a", "l", "o", "n", "i", "a", "n", "s">>,
   min_title_chars |-> 2,
   num_variations |-> << <<"t", "w", "o">>, <<"s", "e", "c">>, <<"s", "e", "c", "o">>, <<"s", "e", "c", "o", "n">>, <<"s", "e", "c", "o", "n", "d">>, <<"2">>, <<"2", "n", "d">>, <<"i", "i", " ">> >>],
  [expected |-> <<"2", " ", "T", "i", "m", "o", "t", "h", "y">>,
   book_title |-> <<"t", "i", "m", "o", "t", "h", "y">>,
   min_title_chars |-> 2,
   num_variations |-> << <<"t", "w", "o">>, <<"s", "e", "c">>, <<"s", "e", "c", "o">>, <<"s", "e", "c", "o", "n">>, <<"s", "e", "c", "o", "n", "d">>, <<"2">>, <<"2", "n", "d">>, <<"i", "i", " ">> >>],
  [expected |-> <<"3", " ", "J", "o", "h", "n">>,
   book_title |-> <<"j", "o", "h", "n">>,
   min_title_chars |-> 2,
   num_variations |-> << <<"t", "h", "r">>, <<"t", "h", "r", "e">>, <<"t", "h", "r", "e", "e">>, <<"t", "h", "i">>, <<"t", "h", "i", "r">>, <<"t", "h", "i", "r", "d">>, <<"3">>, <<"3", "r", "d">>, <<"i", "i", "i", " ">> >>],
  [expected |-> <<"A", "c", "t", "s">>,
   book_title |-> <<"a", "c", "t", "s">>,
   min_title_chars |-> 2,
   num_variations |-> << <<>> >>],
  [expected |-> <<"A", "m", "o", "s">>,
   book_title |-> <<"a", "m", "o", "s">>,
   min_title_chars |-> 2,
   num_variations |-> << <<>> >>],
  [expected |-> <<"C", "o", "l", "o", "s", "s", "i", "a", "n", "s">>,
   book_title |-> <<"c", "o", "l", "o", "s", "s", "i", "a", "n", "s">>,
   min_title_chars |-> 2,
   num_variations |-> << <<>> >>],
  [expected |-> <<"D", "a", "n", "i", "e", "l">>,
   book_title |-> <<"d", "a", "n", "i", "e", "l">>,
   min_title_chars |-> 2,
   num_variations |-> << <<>> >>],
  [expected |-> <<"D", "e", "u", "t", "e", "r", "o", "n", "o", "m", "y">>,
   book_title |-> <<"d", "e", "u", "t", "e", "r", "o", "n", "o", "m", "y">>,
   min_title_chars |-> 2,
   num_variations |-> << <<>> >>],
  [expected |-> <<"E", "c", "c", "l", "e", "s", "i", "a", "s", "t", "e", "s">>,
   book_title |-> <<"e", "c", "c", "l", "e", "s", "i", "a", "s", "t", "e", "s">>,
   min_title_chars |-> 2,
   num_variations |-> << <<>> >>],
  [expected |-> <<"E", "p", "h", "e", "s", "i", "a", "n", "s">>,
   book_title |-> <<"e", "p", "h", "e", "s", "i", "a", "n", "s">>,
   min_title_chars |-> 2,
   num_variations |-> << <<>> >>],
  [expected |-> <<"E", "s", "t", "h", "e", "r">>,
   book_title |-> <<"e", "s", "t", "h", "e", "r">>,
   min_title_chars |-> 2,
   num_variations |-> << <<>> >>],
  [expected |-> <<"E", "x", "o", "d", "u", "s">>,
   book_title |-> <<"e", "x", "o", "d", "u", "s">>,
   min_title_chars |-> 2,
   num_variations |-> << <<>> >>],
  [expected |-> <<"E", "z", "e", "k", "i", "e", "l">>,
   book_title |-> <<"e", "z", "e", "k", "i", "e", "l">>,
   min_title_chars |-> 3,
   num_variations |-> << <<>> >>],
  [expected |-> <<"E", "z", "r", "a">>,
   book_title |-> <<"e", "z", "r", "a">>,
   min_title_chars |-> 3,
   num_variations |-> << <<>> >>],
  [expected |-> <<"G", "a", "l", "a", "t", "i", "a", "n", "s">>,
   book_title |-> <<"g", "a", "l", "a", "t", "i", "a", "n", "s">>,
   min_title_chars |-> 2,
   num_variations |-> << <<>> >>],
  [expected |-> <<"G", "e", "n", "e", "s", "i", "s">>,
   book_title |-> <<"g", "e", "n", "e", "s", "i", "s">>,
   min_title_chars |-> 2,
   num_variations |-> << <<>> >>],
  [expected |-> <<"H", "a", "b", "a", "k", "k", "u", "k">>,
   book_title |-> <<"h", "a", "b", "a", "k", "k", "u", "k">>,
   min_title_chars |-> 3,
   num_variations |-> << <<>> >>],
  [expected |-> <<"H", "a", "g", "g", "a", "i">>,
   book_title |-> <<"h", "a", "g", "g", "a", "i">>,
   min_title_chars |-> 3,
   num_variations |-> << <<>> >>],
  [expected |-> <<"H", "e", "b", "r", "e", "w", "s">>,
   book_title |-> <<"h", "e", "b", "r", "e", "w", "s">>,
   min_title_chars |-> 2,
   num_variations |-> << <<>> >>],
  [expected |-> <<"H", "o", "s", "e", "a">>,
   book_title |-> <<"h", "o", "s", "e", "a">>,
   min_title_chars |-> 2,
   num_variations |-> << <<>> >>],
  [expected |-> <<"I", "s", "a", "i", "a", "h">>,
   book_title |-> <<"i", "s", "a", "i", "a", "h">>,
   min_title_chars |-> 2,
   num_variations |-> << <<>> >>],
  [expected |-> <<"J", "a", "m", "e", "s">>,
   book_title |-> <<"j", "a", "m", "e", "s">>,
   min_title_chars |-> 2,
   num_variations |-> << <<>> >>],
  [expected |-> <<"J", "e", "r", "e", "m", "i", "a", "h">>,
   book_title |-> <<"j", "e", "r", "e", "m", "i", "a", "h">>,
   min_title_chars |-> 2,
   num_variations |-> << <<>> >>],
  [expected |-> <<"J", "o", "b">>,
   book_title |-> <<"j", "o", "b">>,
   min_title_chars |-> 3,
   num_variations |-> << <<>> >>],
  [expected |-> <<"J", "o", "e", "l">>,
   book_title |-> <<"j", "o", "e", "l">>,
   min_title_chars |-> 3,
   num_variations |-> << <<>> >>],
  [expected |-> <<"J", "o", "h", "n">>,
   book_title |-> <<"j", "o", "h", "n">>,
   min_title_chars |-> 3,
   num_variations |-> << <<>> >>],
  [expected |-> <<"J", "o", "n", "a", "h">>,
   book_title |-> <<"j", "o", "n", "a", "h">>,
   min_title_chars |-> 3,
   num_variations |-> << <<>> >>],
  [expected |-> <<"J", "o", "s", "h", "u", "a">>,
   book_title |-> <<"j", "o", "s", "h", "u", "a">>,
   min_title_chars |-> 3,
   num_variations |-> << <<>> >>],
  [expected |-> <<"J", "u", "d", "e">>,
   book_title |-> <<"j", "u", "d", "e">>,
   min_title_chars |-> 4,
   num_variations |-> << <<>> >>],
  [expected |-> <<"J", "u", "d", "g", "e", "s">>,
   book_title |-> <<"j", "u", "d", "g", "e", "s">>,
   min_title_chars |-> 4,
   num_variations |-> << <<>> >>],
  [expected |-> <<"L", "a", "m", "e", "n", "t", "a", "t", "i", "o", "n", "s">>,
   book_title |-> <<"l", "a", "m", "e", "n", "t", "a", "t", "i", "o", "n", "s">>,
   min_title_chars |-> 2,
   num_variations |-> << <<>> >>],
  [expected |-> <<"L", "e", "v", "i", "t", "i", "c", "u", "s">>,
   book_title |-> <<"l", "e", "v", "i", "t", "i", "c", "u", "s">>,
   min_title_chars |-> 2,
   num_variations |-> << <<>> >>],
  [expected |-> <<"L", "u", "k", "e">>,
   book_title |-> <<"l", "u", "k", "e">>,
   min_title_chars |-> 2,
   num_variations |-> << <<>> >>],
  [expected |-> <<"M", "a", "l", "a", "c", "h", "i">>,
   book_title |-> <<"m", "a", "l", "a", "c", "h", "i">>,
   min_title_chars |-> 3,
   num_variations |-> << <<>> >>],
  [expected |-> <<"M", "a", "r", "k">>,
   book_title |-> <<"m", "a", "r", "k">>,
   min_title_chars |-> 3,
   num_variations |-> << <<>> >>],
  [expected |-> <<"M", "a", "t", "t", "h", "e", "w">>,
   book_title |-> <<"m", "a", "t", "t", "h", "e", "w">>,
   min_title_chars |-> 3,
   num_variations |-> << <<>> >>],
  [expected |-> <<"M", "i", "c", "a", "h">>,
   book_title |-> <<"m", "i", "c", "a", "h">>,
   min_title_chars |-> 3,
   num_variations |-> << <<>> >>],
  [expected |-> <<"N", "a", "h", "u", "m">>,
   book_title |-> <<"n", "a", "h", "u", "m">>,
   min_title_chars |-> 2,
   num_variations |-> << <<>> >>],
  [expected |-> <<"N", "e", "h", "e", "m", "i", "a", "h">>,
   book_title |-> <<"n", "e", "h", "e", "m", "i", "a">>,
   min_title_chars |-> 2,
   num_variations |-> << <<>> >>],
  [expected |-> <<"N", "u", "m", "b", "e", "r", "s">>,
   book_title |-> <<"n", "u", "m", "b", "e", "r", "s">>,
   min_title_chars |-> 2,
   num_variations |-> << <<>> >>],
  [expected |-> <<"O", "b", "a", "d", "i", "a", "h">>,
   book_title |-> <<"o", "b", "a", "d", "i", "a", "h">>,
   min_title_chars |-> 2,
   num_variations |-> << <<>> >>],
  [expected |-> <<"P", "h", "i", "l", "e", "m", "o", "n">>,
   book_title |-> <<"p", "h", "i", "l", "e", "m", "o", "n">>,
   min_title_chars |-> 5,
   num_variations |-> << <<>> >>],
  [expected |-> <<"P", "h", "i", "l", "i", "p", "p", "i", "a", "n", "s">>,
   book_title |-> <<"p", "h", "i", "l", "i", "p", "p", "i", "a", "n", "s">>,
   min_title_chars |-> 5,
   num_variations |-> << <<>> >>],
  [expected |-> <<"P", "r", "o", "v", "e", "r", "b", "s">>,
   book_title |-> <<"p", "r", "o", "v", "e", "r", "b", "s">>,
   min_title_chars |-> 2,
   num_variations |-> << <<>> >>],
  [expected |-> <<"P", "s", "a", "l", "m", "s">>,
   book_title |-> <<"p", "s", "a", "l", "m", "s">>,
   min_title_chars |-> 2,
   num_variations |-> << <<>> >>],
  [expected |-> <<"R", "e", "v", "e", "l", "a", "t", "i", "o", "n">>,
   book_title |-> <<"r", "e", "v", "e", "l", "a", "t", "i", "o", "n">>,
   min_title_chars |-> 2,
   num_variations |-> << <<>> >>],
  [expected |-> <<"R", "o", "m", "a", "n", "s">>,
   book_title |-> <<"r", "o", "m", "a", "n", "s">>,
   min_title_chars |-> 2,
   num_variations |-> << <<>> >>],
  [expected |-> <<"R", "u", "t", "h">>,
   book_title |-> <<"r", "u", "t", "h">>,
   min_title_chars |-> 2,
   num_variations |-> << <<>> >>],
  [expected |-> <<"S", "o", "n", "g", " ", "o", "f", " ", "S", "o", "l", "o", "m", "o", "n">>,
   book_title |-> <<"s", "o", "n", "g", " ", "o", "f", " ", "s", "o", "l", "o", "m", "o", "n">>,
   min_title_chars |-> 1,
   num_variations |-> << <<>> >>],
  [expected |-> <<"T", "i", "t", "u", "s">>,
   book_title |-> <<"t", "i", "t", "u", "s">>,
   min_title_chars |-> 2,
   num_variations |-> << <<>> >>],
  [expected |-> <<"Z", "e", "c", "h", "a", "r", "i", "a", "h">>,
   book_title |-> <<"z", "e", "c", "h", "a", "r", "i", "a", "h">>,
   min_title_chars |-> 3,
   num_variations |-> << <<>> >>],
  [expected |-> <<"Z", "e", "p", "h", "a", "n", "i", "a", "h">>,
   book_title |-> <<"z", "e", "p", "h", "a", "n", "i", "a", "h">>,
   min_title_chars |-> 3,
   num_variations |-> << <<>> >>]
>>

\* the spacings of add_numbered_variants
Spacings == {"no_spaces", "center_spaces", "leading_spaces",
             "trailing_spaces", "all_spaces"}

\* get_book_title_variations: the prefixes of book_title from
\* minimum_length characters up to the whole of it
get_book_title_variations(book_title, minimum_length) ==
  {SubSeq(book_title, 1, n) : n \in minimum_length..Len(book_title)}

\* one string of add_numbered_variants: the ordinal form s and the title
\* with the spaces of a spacing
add_numbered_variant(book_title, s, spacing) ==
  CASE spacing = "no_spaces" -> s \o book_title
    [] spacing = "center_spaces" -> s \o <<" ", " ">> \o book_title
    [] spacing = "leading_spaces" ->
         <<" ", " ">> \o s \o <<" ", " ">> \o book_title
    [] spacing = "trailing_spaces" ->
         s \o <<" ", " ">> \o book_title \o <<" ", " ">>
    [] spacing = "all_spaces" ->
         <<" ", " ">> \o s \o <<" ", " ">> \o book_title \o <<" ", " ">>

\* the name of a canonical title in lower case, without its ordinal
NameOf(t) ==
  LET lower == [j \in 1..Len(t.expected) |-> Lower(t.expected[j])]
  IN  IF t.num_variations = << <<>> >> THEN lower
      ELSE SubSeq(lower, 3, Len(lower))

\* the variations of one test: the prefix (of the name the test gives and
\* of the name of the title), the ordinal form, the spacing
TestInputs(i) ==
  LET t == title_tests[i]
  IN  { [shape |-> "title", test |-> i, book_title |-> v,
         num |-> t.num_variations[k], spacing |-> sp] :
          v \in get_book_title_variations(t.book_title, t.min_title_chars)
                  \cup get_book_title_variations(NameOf(t), t.min_title_chars),
          k \in 1..Len(t.num_variations),
          sp \in Spacings }

\* the prefixes of the name of a test that are shorter than its
\* min_title_chars, with the ordinal forms and the spacings of the test
ShortInputs(i) ==
  LET t == title_tests[i]
  IN  { [shape |-> "short", test |-> i,
         book_title |-> SubSeq(t.book_title, 1, n),
         num |-> t.num_variations[k], spacing |-> sp] :
          n \in 1..(t.min_title_chars - 1),
          k \in 1..Len(t.num_variations),
          sp \in Spacings }

TitleInputs ==
  UNION {TestInputs(i) \cup ShortInputs(i) : i \in 1..Len(title_tests)}

TitleInit ==
  /\ input \in TitleInputs
  /\ query = add_numbered_variant(input.book_title, input.num, input.spacing)
  /\ pc = "get_title"
  /\ main = None
  /\ sub = <<>>
  /\ parsed = None
  /\ params = None
  /\ main_result = None
  /\ result = None

\* get_title(query): one of the titles whose pattern matches, None or the
\* panic
GetTitle ==
  /\ pc = "get_title"
  /\ \E title \in get_title(query) : result' = title
  /\ pc' = "titled"
  /\ UNCHANGED <<input, query, main, sub, parsed, params, main_result>>

TitleNext == GetTitle

TitleSpec == TitleInit /\ [][TitleNext]_vars

\* C19: for every prefix of a book's lower-case name of at least the
\* length its test uses, with every ordinal form the test lists and every
\* spacing, get_title returns the canonical title of the book.
C19_PrefixesGiveTitle ==
  (pc = "titled" /\ input.shape = "title") =>
    result = Some(title_tests[input.test].expected)

\* get_title has returned 1 Samuel for the shortest prefix of its test,
\* sam, after the Roman ordinal and with spaces on every side
C19_Witness ==
  /\ pc = "titled"
  /\ query = <<" ", " ", "i", " ", " ", " ", "s", "a", "m", " ", " ">>
  /\ result = Some(<<"1", " ", "S", "a", "m", "u", "e", "l">>)

\* the query is the text, written out in full
IsText(text) == input.shape = "text" /\ input.head = text

SongOfSolomon == <<"S", "o", "n", "g", " ", "o", "f", " ", "S", "o", "l", "o", "m", "o", "n">>

CrossChapterText == <<"S", "o", "n", "g", " ", "o", "f", " ", "S", "o", "l", "o", "m", "o", "n", " ", "2", ":", "3", "-", "5", ":", "6">>

\* C21 as it is stated: search of 'Song of Solomon 2:3-5:6' returns Song
\* of Solomon, chapter 2, verses 3 to 17.
C21_AsClaimed ==
  (Returned /\ IsText(CrossChapterText)) =>
    result = [tag |-> "Ok", title |-> SongOfSolomon, chapter |-> 2,
              verses |-> 3..17]

\* C21: search of 'Song of Solomon 2:3-5:6' returns Song of Solomon,
\* chapter 2, verses 3 to 5: the range regex takes 5 as the end of the
\* range and the ':6' after it is ignored.
C21_RangeEndsAtFive ==
  (Returned /\ IsText(CrossChapterText)) =>
    /\ parsed = Some(ParamsOf("VerseRange", SongOfSolomon, 2, 3, 5))
    /\ result = [tag |-> "Ok", title |-> SongOfSolomon, chapter |-> 2,
                 verses |-> 3..5]

\* search has returned a Selection for 'Song of Solomon 2:3-5:6'
C21_Witness ==
  /\ Returned
  /\ query = CrossChapterText
  /\ result.tag = "Ok"
  /\ result.chapter = 2

\* John with a run of trailing characters after it
TrailingTexts == {
  <<"J", "o", "h", "n", "-">>, <<"J", "o", "h", "n", ":">>, <<"J", "o", "h", "n", "_">>, <<"J", "o", "h", "n", " ", "-", "3">> }

\* C22: a run of digits, colons, hyphens, underscores and whitespace
\* after a book name is ignored by the title patterns: 'John-', 'John:',
\* 'John_' and 'John -3' are recognized as John.
C22_TrailingIgnored ==
  (pc \notin {"search", "process_query"} /\ input.head \in TrailingTexts) =>
    IsSome(parsed) /\ parsed.v.title = <<"J", "o", "h", "n">>

\* the text of a query after its head, without the spaces the head region
\* ends with
AfterHead(in) ==
  IF in.shape = "text" THEN <<"2", "s", ":", "3">>
  ELSE IF ResidueOf(in) = <<>> THEN <<>>
  ELSE Tail(ResidueOf(in))

\* the queries C24 is checked on: 's:2s:3', and a head the book regex
\* matches from its first character with a residue of one of the shapes
IsResidueQuery ==
  \/ IsText(<<"s", ":", "2", "s", ":", "3">>)
  \/ /\ input.shape \in {"book", "chapter", "verse", "range"}
     /\ input.head # <<>>
     /\ HeadFromStart

\* C24: get_params returns the query without the one head region that
\* matched: the text after the head as it is, also when the text of the
\* head comes again in it ('2s:3' for 's:2s:3'), and None when nothing
\* comes after the head.
C24_ResidueVerbatim ==
  (pc = "process_query" /\ IsResidueQuery) =>
    get_params(main.v) = NonEmpty(AfterHead(input))

\* C26: the handler calls that follow a parsed query end in a BibleSearch
\* of the head: when search has returned for a query that was parsed, a
\* handler has emitted a BibleSearch and search has returned one.
C26_ReachesSelection ==
  (Returned /\ IsSome(parsed)) => (IsSome(main_result) /\ result.tag = "Ok")

\* John with a number in front of it
NumberedTexts == { <<"5", " ", "J", "o", "h", "n", " ", "3">>, <<"1", "2", "3", " ", "J", "o", "h", "n", " ", "2">> }

\* C28: a query that begins with a number that is no ordinal ('4 John',
\* '5 John 3', '123 John 2') has no book: get_search_params returns None
\* and search the error.
C28_LeadingRunOnly ==
  (Returned /\ (input.head \in NumberedTexts
                  \/ input.head = <<"4", " ", "J", "o", "h", "n">>)) =>
    parsed = None /\ result = Err

\* the handlers that look a chapter up
ChapterHandlers == {"book", "chapter", "verse", "verse_range"}

\* C29: the pattern table and the chapter-count table have the same 66
\* keys, so a title that was recognized has a chapter 1 and no handler
\* runs for a title without a chapter count.
C29_TitlesHaveChapters ==
  /\ Titles = DOMAIN chapter_counts
  /\ Cardinality(Titles) = 66
  /\ IsSome(parsed) => chapter_exists_in_book(parsed.v.title, 1)
  /\ pc \in ChapterHandlers => IsSome(get_chapter_count_by_book(params.title))
  /\ IsSome(main_result) => chapter_exists_in_book(main_result.v.title, 1)

\* chapter_to_bible_search runs for a title that was recognized from an
\* abbreviation with a Roman ordinal
C29_Witness ==
  /\ pc = "chapter"
  /\ input.head = <<"i", "i", "i", " ", "j", "o">>
  /\ params.title = <<"3", " ", "J", "o", "h", "n">>

\* the forms of the ordinals 1, 2 and 3
OnesForms ==
  { <<"1">>,
    <<"1", "s", "t">>,
    <<"i", " ">>,
    <<"o", "n", "e">>,
    <<"f", "s", "t">>,
    <<"f", "i", "r", "s", "t">> }

TwosForms ==
  { <<"2">>,
    <<"2", "n", "d">>,
    <<"i", "i", " ">>,
    <<"t", "w", "o">>,
    <<"s", "e", "c">>,
    <<"s", "e", "c", "o">>,
    <<"s", "e", "c", "o", "n">>,
    <<"s", "e", "c", "o", "n", "d">> }

ThreesForms ==
  { <<"3">>,
    <<"3", "r", "d">>,
    <<"i", "i", "i", " ">>,
    <<"t", "h", "r">>,
    <<"t", "h", "r", "e">>,
    <<"t", "h", "r", "e", "e">>,
    <<"t", "h", "i">>,
    <<"t", "h", "i", "r">>,
    <<"t", "h", "i", "r", "d">> }

\* the digit and the space an ordinal form stands for, nothing for no form
DigitOf(form) ==
  IF form \in OnesForms THEN <<"1", " ">>
  ELSE IF form \in TwosForms THEN <<"2", " ">>
  ELSE IF form \in ThreesForms THEN <<"3", " ">>
  ELSE <<>>

\* the captured text is the form: all of its letters, and for a Roman
\* form the whitespace that follows it
IsWhole(captured, form) ==
  IF form[Len(form)] = " "
  THEN /\ Len(captured) >= Len(form)
       /\ SubSeq(captured, 1, Len(form)) = form
       /\ \A i \in Len(form)..Len(captured) : captured[i] = " "
  ELSE captured = form

\* the ordinal of a query, as the book regex captures it and as
\* get_title_from_captures normalizes it
OrdinalOf(q, form) ==
  LET captures == get_book_regex(q)
  IN  /\ IsSome(captures)
      /\ IF form = <<>>
         THEN /\ captures.v.book_num = None
              /\ get_title_from_captures(captures.v)
                   = format_title(<<>>, captures.v.book_text)
         ELSE /\ IsSome(captures.v.book_num)
              /\ IsWhole(LowerCased(captures.v.book_num.v), form)
              /\ get_book_num_string(captures.v.book_num.v) = Some(DigitOf(form))
              /\ get_title_from_captures(captures.v)
                   = format_title(DigitOf(form), captures.v.book_text)

\* C23: every listed form of 1, 2 and 3, in lower, upper and mixed case,
\* is captured whole and normalized to its own digit and one space ('iii '
\* to 3, 'ii ' to 2, 'i ' to 1), and a query without an ordinal has the
\* empty ordinal; the queries are those of the tests of the 66 titles.
C23_OrdinalNormalized ==
  (pc = "titled" /\ input.shape = "title") =>
    /\ input.num \in OnesForms \cup TwosForms \cup ThreesForms \cup {<<>>}
    /\ OrdinalOf(query, input.num)
    /\ OrdinalOf(UpperCased(query), input.num)
    /\ OrdinalOf(MixedCased(query), input.num)

\* get_title has returned 3 John for the Roman ordinal iii and two spaces
\* after it
C23_Witness ==
  /\ pc = "titled"
  /\ query = <<"i", "i", "i", " ", " ", " ", "j", "o", "h", "n">>
  /\ result = Some(<<"3", " ", "J", "o", "h", "n">>)

\* C27: at most one of the 66 patterns matches the title that is passed
\* to get_proper_title, and get_title has one possible result.
C27_PatternsDisjoint ==
  pc = "titled" =>
    LET title == TitleOfCaptures(get_book_regex(query))
    IN  /\ IsSome(title) => Cardinality(get_proper_title(title.v)) <= 1
        /\ Cardinality(get_title(query)) = 1
        /\ get_title(query) = {result}

\* get_title has returned None for jo, of which Job, Joel, John, Jonah and
\* Joshua all begin with, and John for joh
C27_Witness ==
  /\ pc = "titled"
  /\ \/ query = <<"j", "o">> /\ result = None
     \/ query = <<"j", "o", "h">> /\ result = Some(<<"J", "o", "h", "n">>)

\* ------------------------------------------------------------------------
\* chapter.rs: get_chapter_count_by_book and chapter_exists_in_book on
\* the titles, on titles in another case and on other strings
\* ------------------------------------------------------------------------

\* strings that are no title
NoTitles == {
  <<"B", "o", "o", "k", " ", "o", "f", " ", "R", "o", "b", "e", "r", "t">>,
  <<>>,
  <<"P", "s", "a", "l", "m">>,
  <<"J", "o", "b", " ">>,
  <<"4", " ", "J", "o", "h", "n">>,
  <<"1", "J", "o", "h", "n">> }

BookArgs ==
  Titles \cup {LowerCased(t) : t \in Titles} \cup {UpperCased(t) : t \in Titles}
    \cup NoTitles

\* chapter numbers: the first ones, those next to a chapter count, and
\* the largest u8
ChapterArgs ==
  (0..(MaxNum + 1))
    \cup UNION {{chapter_counts[t] - 1, chapter_counts[t], chapter_counts[t] + 1} :
                  t \in DOMAIN chapter_counts}
    \cup {100, U8Max}

ChapterInit ==
  /\ input \in [shape : {"lookup"}, book : BookArgs, chapter : ChapterArgs]
  /\ query = input.book
  /\ pc = "chapter_exists_in_book"
  /\ main = None
  /\ sub = <<>>
  /\ parsed = None
  /\ params = None
  /\ main_result = None
  /\ result = None

\* get_chapter_count_by_book(book) and chapter_exists_in_book(book, chapter)
ChapterExistsInBook ==
  /\ pc = "chapter_exists_in_book"
  /\ result' = [count |-> get_chapter_count_by_book(input.book),
                exists |-> chapter_exists_in_book(input.book, input.chapter)]
  /\ pc' = "looked_up"
  /\ UNCHANGED <<input, query, main, sub, parsed, params, main_result>>

ChapterNext == ChapterExistsInBook

ChapterSpec == ChapterInit /\ [][ChapterNext]_vars

\* the largest chapter count, that of Psalms
MaxChapters == 150

\* C25: get_chapter_count_by_book returns Some(n) with 1 <= n <= 150 for
\* the 66 titles as they are written and None for every other string;
\* chapter_exists_in_book is true exactly for a title and a chapter from
\* 1 to its count.
C25_ChapterQueries ==
  /\ Cardinality(Titles) = 66
  /\ pc = "looked_up" =>
       /\ input.book \in Titles =>
            /\ IsSome(result.count)
            /\ result.count.v >= 1 /\ result.count.v <= MaxChapters
       /\ input.book \notin Titles => result.count = None
       /\ result.exists <=>
            /\ input.book \in Titles
            /\ IsSome(result.count)
            /\ 1 <= input.chapter /\ input.chapter <= result.count.v

\* chapter_exists_in_book has returned false for Job 100, for chapter 0
\* of a title and for a title in lower case
C25_Witness ==
  /\ pc = "looked_up"
  /\ ~result.exists
  /\ \/ input.book = <<"J", "o", "b">> /\ input.chapter = 100
     \/ input.book = <<"J", "o", "b">> /\ input.chapter = 0
     \/ input.book = <<"j", "o", "b">> /\ input.chapter = 1

====
